SPECIFICATION Spec
CONSTANTS
    NComments = 2
    Matching = {1, 2}
    Worlds <- WorldsDef
    Sweeps = {s1}
    s1 = s1
    Cap = 1
    ListMax = 2
    MaxJobs = 1
PROPERTIES
    ViralPostDrains
CHECK_DEADLOCK FALSE
