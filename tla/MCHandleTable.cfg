CONSTANTS
    Threads = {t1, t2, t3}
    Objects = {o1}
    Null = Null
    PageEntries = 2
    MaxPages = 2
    TableLocks = 3
    FreePool = 2
SPECIFICATION Spec
SYMMETRY Symmetry
INVARIANTS TypeOK OnePlace WaitersKept
