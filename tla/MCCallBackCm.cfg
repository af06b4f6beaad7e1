CONSTANTS
    Threads = {t1, t2}
    Blocks = {b1}
    Null = Null
    Routines = {r1}
    NumberSlots = 1
    MaxFastRefs = 2
    Clients = {"cm"}
    MaxRegister = 1
SPECIFICATION FairSpec
PROPERTY RemovalReturns
