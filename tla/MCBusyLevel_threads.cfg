CONSTANTS
    Threads = {t1, t2}
    Samples <- RecoverySamples
    Params <- RecoveryParams
    MaxDatas = 3
    MaxSetups = 1
SPECIFICATION LiveSpec
PROPERTIES
    RecoversWhenIdle
    EscalatesUnderLoad
