SPECIFICATION FocusSpec
CONSTANTS
    None = None
    NSlots = 3
    NWindows = 2
    NMaps = 2
    MaxHandles = 4
    QuotaHandles = 3
    RowBudget = 3
    ImageRows = 1
    QuotaWindows = 1
    QuotaMaps = 2
    MaxRefs = 2
INVARIANTS RefsExact NoStaleName LedgersAgree
