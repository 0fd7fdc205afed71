\* One reporting thread: the monitor loop of spec section 2.
CONSTANTS
    Threads = {t1}
    Samples <- MCSamples
    Params <- MCParams
    MaxDatas = 3
    MaxSetups = 1
    Server = 1
    None = None
    Crash = Crash
SPECIFICATION Spec
INVARIANTS
    TypeOK
    MirrorsWhenQuiet
PROPERTIES
    BalancerFollows
