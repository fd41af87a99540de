SPECIFICATION Spec
CONSTANTS
    None = None
    d1 = d1
    d2 = d2
    secA = secA
    secB = secB
    Plans = {p1, p2, p3, p4}
    Demands = {d1, d2}
    Sections = {secA, secB}
    Times <- OneWindow
    Users = {u1}
    Keys = {k1, k2, k3}
    Rows = {}
    Incidents = {i1, i2, i3}
    Runs = {r1}
    Sessions = {s1, s2}
    Handlers = {"solve", "ingest", "breakdown"}
    SignalWork = {}
    Adjacent <- Touching
    Offers <- SideBySide
SYMMETRY SymmetricIds
INVARIANTS
    CoalescedIntoRoot
    ProvisionalHasItsIncident
CHECK_DEADLOCK FALSE
