CONSTANTS
    Values = {a, b}
    Torn = Torn
    MaxLength = 3
    MaxTime = 1
    FailPoints = {"primaryHeader2", "primaryFlush3"}
    SuspendAnytime = FALSE
SYMMETRY Symmetry
SPECIFICATION MCSpec
INVARIANT LogKept
