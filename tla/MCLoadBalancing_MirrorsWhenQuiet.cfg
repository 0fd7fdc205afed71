\* Two reporting threads (spec section 5: many concurrent callers).
CONSTANTS
    Threads = {t1, t2}
    Samples <- MCSamples
    Params <- MCParams
    MaxDatas = 3
    MaxSetups = 1
    Server = 1
    None = None
    Crash = Crash
SPECIFICATION Spec
INVARIANT
    MirrorsWhenQuiet
