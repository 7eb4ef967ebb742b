SPECIFICATION FocusSpec
CONSTANTS
    NThreads = 3
    NTimers = 2
    c = c
    e = e
    i = i
    Events = {e}
    Lines = {i}
    Waiters = {w}
    Codes = {c, d}
    SliceTicks = 1
    TickOn = TRUE
    NoOne = NoOne
INVARIANTS TypeOK ListsAgree NoLostWakeup
PROPERTIES WokenWithTheAnswer RunnableRuns SleepEnds
