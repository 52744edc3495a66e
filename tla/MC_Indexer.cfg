SPECIFICATION IndexerFairSpec
CONSTANTS
    g = g   a3 = a3   b3 = b3   b4 = b4   b5 = b5
    h1 = h1
    NoRoot = NoRoot
    OtherRoot = OtherRoot
    ReorgJob = reorg
    GapProc = kg
    GapWorkers = {w1}
    NodeId = n1
    SlotOf <- MCSlotOf
    ParentOf <- MCParentOf
    Width = 6
    Blocks = {g, a3, b4, b5}
    StoredBlocks = {g}
    HeadJobs = {h1}
    TableIncrement = 2
    CheckDb = FALSE
    MinimumSlot = 1
    ErrLimit = 2
    MaxHeads = 2
    MaxBadHeads = 0
    MaxReorgs = 0
    MaxSkips = 0
    MaxFaults = 1
    MaxCrashes = 0
INVARIANTS
    IndexerTypeOK
PROPERTIES
    NoSlotIsDropped
    GapsAreFilled
\* With every bound used up nothing more happens.
CHECK_DEADLOCK FALSE
