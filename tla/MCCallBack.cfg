CONSTANTS
    Threads = {t1, t2}
    Blocks = {b1, b2}
    Null = Null
    Routines = {r1}
    NumberSlots = 2
    MaxFastRefs = 1
    Clients = {"ps", "cm"}
    MaxRegister = 2
SPECIFICATION FairSpec
INVARIANTS TypeOK BlocksLive CountsExact
PROPERTY WaitReturns
