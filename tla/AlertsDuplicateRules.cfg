CONSTANTS
    Devices = {d1, d2}
    d1 = d1
    Keys = {"firewall_disabled"}
    Rules = {r1, r2}
    AlertIds = {a1, a2}
    Slots = {s1, s2}
    None = None
SPECIFICATION Spec
SYMMETRY Symmetry
INVARIANT OneActivePerKey
