CONSTANTS
    Clients = {c1}
    Servers = {s1}
    None = None
SPECIFICATION Spec
INVARIANT MessageFreed
CHECK_DEADLOCK FALSE
