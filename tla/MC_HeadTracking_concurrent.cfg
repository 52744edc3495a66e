SPECIFICATION Spec
CONSTANTS
    g = g   a3 = a3   b3 = b3   b4 = b4   a6 = a6
    h1 = h1   h2 = h2
    NoRoot = NoRoot
    OtherRoot = OtherRoot
    ReorgJob = reorg
    SlotOf <- MCSlotOf
    ParentOf <- MCParentOf
    Width = 16
    Blocks = {a3, b3, b4, a6}
    StoredBlocks = {}
    HeadJobs = {h1, h2}
    TableIncrement = 1
    CheckDb = FALSE
    MaxHeads = 3
    MaxBadHeads = 0
    MaxReorgs = 1
    MaxSkips = 0
    MaxFaults = 0
    MaxCrashes = 0
INVARIANTS
    NoGapSinceStart
    ForkedSlotIsRecoverable
SYMMETRY Symmetry
\* With every bound used up nothing more happens.
CHECK_DEADLOCK FALSE
