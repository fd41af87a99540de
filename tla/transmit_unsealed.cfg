SPECIFICATION Spec
CONSTANTS
    None = None
    d1 = d1
    d2 = d2
    secA = secA
    secB = secB
    Plans = {p1, p2}
    Demands = {d1}
    Sections = {secA}
    Times <- OneWindow
    Users = {u1, u2}
    Keys = {k1, k2}
    Rows = {o1}
    Incidents = {}
    Runs = {r1}
    Sessions = {s1}
    Handlers = {"solve", "approve", "authorize", "transmit", "revise"}
    SignalWork = {}
    Adjacent <- NoNeighbours
    Offers <- RoutineOffers
SYMMETRY Symmetric
INVARIANT TransmittedIsSealed
CHECK_DEADLOCK FALSE
