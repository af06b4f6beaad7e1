CONSTANTS
    Number = 2
    Threads = {t1, t2}
    MaxHeld = 1
    MaxEarly = 1
    Width = 5
    WaitAfterCompleted = TRUE
SPECIFICATION Spec
INVARIANT WaitAgainSafe
