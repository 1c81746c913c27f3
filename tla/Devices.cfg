CONSTANTS
    Slots = {s1, s2}
    Checkins = {c1, c2, c3}
    NTables = 2
    Hardware = {h1, h2}
    None = None
SPECIFICATION Spec
SYMMETRY Symmetry
INVARIANTS TypeOK OnlineWhenSeen InventoryIsLatest HardwareIsLatest
PROPERTY LinkIsLatest
CONSTRAINT PresenceOrLinks
