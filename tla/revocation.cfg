SPECIFICATION Spec
CONSTANTS
    None = None
    d1 = d1
    d2 = d2
    secA = secA
    secB = secB
    Plans = {p1, p2}
    Demands = {d1, d2}
    Sections = {secA}
    Times <- TwoWindows
    Users = {u1, u2}
    Keys = {k1, k2, k3, k4, k5}
    Rows = {o1, o2}
    Incidents = {i1}
    Runs = {r1}
    Sessions = {s1}
    Handlers = {"solve", "approve", "authorize", "transmit", "activate", "breakdown", "acknowledge-incident"}
    SignalWork = {}
    Adjacent <- NoNeighbours
    Offers <- InTurn
SYMMETRY SymmetricIds
INVARIANTS
    ReplanWaits
PROPERTIES
    OneAckOneTransmission
    RevivedByStaleReadOnly
CHECK_DEADLOCK FALSE
