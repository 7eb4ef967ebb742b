SPECIFICATION Spec
CONSTANTS
    NTimers = 2
    Period = 4
    Lead = 2
    Never = 20
    MaxFires = 3
    Afters = {0, 3, 17}
    Intervals = {0, 1, 3}
    MaxNow = 9
INVARIANTS TypeOK FiresExact LateByTheLead
