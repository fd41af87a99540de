SPECIFICATION TransmitFairSpec
CONSTANTS
    None = None
    d1 = d1
    d2 = d2
    secA = secA
    secB = secB
    Plans = {p1, p2}
    Demands = {d1, d2}
    Sections = {secA}
    Times <- TwoWindows
    Users = {u1}
    Keys = {k1}
    Rows = {o1}
    Incidents = {i1}
    Runs = {r1}
    Sessions = {s1}
    Handlers = {"solve", "transmit", "breakdown", "acknowledge-incident"}
    SignalWork = {}
    Adjacent <- NoNeighbours
    Offers <- InTurn
PROPERTY AcknowledgedIsTransmitted
CHECK_DEADLOCK FALSE
