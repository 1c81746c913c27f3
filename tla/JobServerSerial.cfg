CONSTANTS
    Jobs = {j1, j2, j3}
    Devices = {d1}
    Slots = {s1}
    BatchLimit = 2
    None = None
SPECIFICATION Spec
INVARIANT OldestFirst
SYMMETRY Symmetry
PROPERTIES KeepsPromise
