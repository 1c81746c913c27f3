CONSTANTS
    Users = {u1, u2}
    Orgs = {o1, o2}
    Roles = {"owner", "admin"}
    Tokens = {t1, t2}
    Slots = {s1, s2}
    None = None
SPECIFICATION Spec
SYMMETRY Symmetry
INVARIANTS TypeOK OneTokenPerSession LogoutEndsSession SetupStaysLocked
PROPERTY OrganizationsStayApart
