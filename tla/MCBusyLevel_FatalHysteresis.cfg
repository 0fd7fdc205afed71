CONSTANTS
    Threads = {t1, t2}
    Samples <- RaceSamples
    Params <- RaceParams
    MaxDatas = 3
    MaxSetups = 1
SPECIFICATION Spec
PROPERTIES
    FatalHysteresis
