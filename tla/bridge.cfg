SPECIFICATION FairSpec
CONSTANTS
    None = None
    d1 = d1
    d2 = d2
    secA = secA
    secB = secB
    Plans = {p1}
    Demands = {d1}
    Sections = {secA}
    Times <- OneWindow
    Users = {u1, u2}
    Keys = {k1, k2}
    Rows = {o1, o2}
    Incidents = {}
    Runs = {r1}
    Sessions = {s1, s2}
    Handlers = {"solve", "approve", "authorize", "transmit", "cancel"}
    SignalWork = {}
    Adjacent <- NoNeighbours
    Offers <- RoutineOffers
PROPERTY QueuedIsAnswered
CHECK_DEADLOCK FALSE
