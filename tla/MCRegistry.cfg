CONSTANTS
    Values = {a, b}
    Torn = Torn
    MaxLength = 3
    MaxTime = 1
    FailPoints = {"logHeader", "logFlush1", "logVector", "logBody", "logFlush2", "logHeader2", "logFlush3", "primaryFlush0", "primaryHeader", "primaryFlush1", "primaryBody", "primaryFlush2"}
    SuspendAnytime = FALSE
SYMMETRY Symmetry
SPECIFICATION MCSpec
INVARIANTS Types LoadSucceeds LogKept DirtyTracked 
PROPERTIES ReadsASync TimerQueuesWorker
