SPECIFICATION ConsoleSpec
CONSTANTS
    None = None
    Foreign = Foreign
    Users <- MCUsers
    RoleOf <- MCRoleOf
    MaxMounts = 3
    MaxShells = 3
    MaxLogins = 2
    MaxHooks = 2
    MaxAttempts = 3
    MaxEvents = 1
    Plans <- MCPlans
    DeskRoles = {"SR_DOM", "DRM", "CONTROLLER"}
    Starts <- MCStarts
    Slots = {s1, s2}
    MaxMoves = 1
    MaxPresses = 5
    Sections = {sec1, sec2}
    Durations = {d90, d120}
    FirstDuration = d90
    Incidents = {i1, i2}
    DisruptRoles = {"CONTROLLER", "SR_DOM"}
    MaxChanges = 3
    Horizons = {weekly, monthly}
    FirstTab = weekly
    MaxRows = 1
    MaxLoads = 2
    MaxSolves = 2
    Refreshes = {r1, r2}
    MaxVersion = 2
    Asks = {a1, a2}
    MapLoads = {m1, m2}
    MaxGeo = 2
    MaxTouches = 1
CHECK_DEADLOCK FALSE
INVARIANTS
    ConsoleTypeOK
    NoButtonWithoutToken
    OfferedIsAdmitted
    OneAttemptPerMount
    LiveOverOpenSource
    ConfirmedOverAnImpact
    ListedApprovalIsReal
    NoForeignRows
    SilentMeansLoaded
    EntriesUnderVerdict
    
    SubmitHeldByOwnCall
    ControlsRule
    DrawnIsHeld
PROPERTIES
    ShownOperatorActs
    AppliedAsSeen
    LateStagesByOwnAnswer
    ConnectingEnds
    BusyEnds
    DrillIsFreed
