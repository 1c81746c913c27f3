CONSTANTS
    Jobs = {j1}
    Devices = {d1}
    Slots = {s1, s2}
    BatchLimit = 1
    None = None
SPECIFICATION Spec
PROPERTY TerminalIsFinal
