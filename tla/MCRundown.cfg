CONSTANTS
    Threads = {t1, t2}
    Tokens = {k1, k2}
    Releasers = {t1, t2}
SPECIFICATION MCSpec
INVARIANTS TeardownSafe WaitBlockLive CountAsserts  CountsAddUp
PROPERTIES WaitReturns ImplementsRundownSpec
