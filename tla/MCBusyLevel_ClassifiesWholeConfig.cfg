CONSTANTS
    Threads = {t1}
    Samples <- RaceSamples
    Params <- RecoveryParams
    MaxDatas = 3
    MaxSetups = 1
SPECIFICATION Spec
INVARIANT
    ClassifiesWholeConfig
