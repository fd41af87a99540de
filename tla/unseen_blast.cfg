SPECIFICATION DisruptSpec
CONSTANTS
    None = None
    Foreign = Foreign
    Sections = {sec1, sec2}
    Durations = {d90}
    FirstDuration = d90
    Incidents = {i1}
    DisruptRoles = {"CONTROLLER"}
    MaxChanges = 4
INVARIANT ConfirmedThisImpact
CHECK_DEADLOCK FALSE
