CONSTANTS
    t1 = t1
    m1 = m1
    Machines = {m1}
    Hosts = {h1, h2}
    Name <- Namesakes
    Tokens = {t1, t2}
    MaxUses <- OneAndTwo
    DeviceIds = {d1, d2}
    Secrets = {x1, x2, x3, x4, x5}
    Slots = {s1, s2}
    None = None
SPECIFICATION FairServer
ACTION_CONSTRAINT AnyUnused
INVARIANTS TypeOK EnrolmentsWithinLimit DuplicatesNeedTwoTokens FileMatchesServer
PROPERTIES EnrollsAtOnce RequestsAreServed
