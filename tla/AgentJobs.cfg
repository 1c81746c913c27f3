CONSTANTS
    d1 = d1
    Jobs = {j1}
    Devices = {d1}
    Slots = {s1, s2}
    BatchLimit = 1
    None = None
    Procs = {p1}
    Home <- AllOnD1
SPECIFICATION FairSpec
INVARIANTS AgentTypeOK ExecutedAtMostOnce ResultIsTruthful
PROPERTY EveryJobSettles
