CONSTANTS
    Jobs = {j1}
    Devices = {d1, d2}
    Slots = {s1, s2, s3}
    BatchLimit = 1
    None = None
SPECIFICATION Spec
SYMMETRY Symmetry
INVARIANTS StatusMatchesResult
PROPERTY ResultIsKept RestIsFinal
