CONSTANTS
    Threads = {t1}
    Samples <- MCSamples
    Params <- MCParams
    MaxDatas = 3
    MaxSetups = 2
SPECIFICATION LiveSpec
INVARIANTS
    TypeOK
    ConformsToTable
PROPERTIES
    SettlesUnderSteadyLoad
