CONSTANTS
    Threads = {t1, t2, t3}
    Pointers = {}
    Worker = Worker
    None = None
    FirstSize = 2
    Growth = 2
    MaxSize = 4
    MaxHeld = 2
    Reacquires = TRUE
SPECIFICATION Spec
INVARIANT AwakeOwnsNothing
