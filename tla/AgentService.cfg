CONSTANTS
    Procs = {p1, p2}
    Stoppers = {k1}
    Grace = 2
    Patience = 3
SPECIFICATION FairSpec
INVARIANTS TypeOK OneWorkerTalks RestartRenews TimeoutMeansRestart
PROPERTY StopSettles
