CONSTANTS
    c1 = c1
    c2 = c2
    s1 = s1
    k1 = k1
    k2 = k2
    p1 = p1
    p2 = p2
    None = None
    Worker = Worker
SPECIFICATION FairSpec
CHECK_DEADLOCK FALSE
INVARIANTS TypeOK  ReplyMatches ChainSound  NoDangling NoneMissed
PROPERTY WaitsReturn
