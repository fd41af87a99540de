SPECIFICATION Spec
CONSTANTS
    None = None
    d1 = d1
    d2 = d2
    secA = secA
    secB = secB
    Plans = {p1, p2}
    Demands = {d2}
    Sections = {secA}
    Times <- TwoWindows
    Users = {u1, u2}
    Keys = {k1, k2, k3}
    Rows = {o1}
    Incidents = {}
    Runs = {r1}
    Sessions = {s1, s2}
    Handlers = {"solve", "acknowledge-signal", "revise", "approve", "authorize", "reject", "transmit", "activate", "complete", "archive", "cancel"}
    SignalWork = {d2}
    Adjacent <- NoNeighbours
    Offers <- SignalOffers
SYMMETRY Symmetric
INVARIANTS
    TypeOK
    TwoPersonRelease
    OnLineOnlyOnAck
    SingleEffect
    DraftAwaitsAcks
    SignalWorkAcknowledged
    RevisionStartsAfresh
    PastTheSentinel
PROPERTY MilestonesInOrder
CHECK_DEADLOCK FALSE
