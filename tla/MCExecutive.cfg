CONSTANTS
    Threads = {t1, t2, t3}
    Null = Null
    AcquireCalls = {"Exclusive", "Shared", "TryExclusive", "TryShared", "AcquireRelease"}
    ReleaseCalls = {"Inline", "Exf", "Generic", "ConvertToShared", "TryConvertToExclusive"}
    MaxAcquires = 2
    Objects = {o1, o2}
    Pointer = Pointer
    Worker = Worker
SPECIFICATION MCSpec
SYMMETRY Symmetry
INVARIANTS Types WaitBlocksLive ShareCountExact SourceAsserts WaitersRemembered
INVARIANTS RefsExact RefsLive GrantsExact ExclusiveAlone EntriesExact
PROPERTY ImplementsRWLock
