----------------------------- MODULE MCConsole -----------------------------
EXTENDS Console, TLC

\* One user per role a token of the seeded scenario can carry, one with a role no
\* table of the console lists.
MCUsers == {"sr_dom", "drm", "ctl", "den", "sm", "auditor", "admin", "foreign"}
MCRoleOf == [u \in MCUsers |->
    CASE u = "sr_dom"  -> "SR_DOM"
      [] u = "drm"     -> "DRM"
      [] u = "ctl"     -> "CONTROLLER"
      [] u = "den"     -> "ENGINEER"
      [] u = "sm"      -> "STATION_MASTER"
      [] u = "auditor" -> "AUDITOR"
      [] u = "admin"   -> "ADMIN"
      [] u = "foreign" -> Foreign]

MCPlans == {"p1", "p2"}
\* A plan awaiting its signatures, and one awaiting acknowledgments.
MCStarts == {[p \in MCPlans |-> IF p = "p1" THEN "SENTINEL_PASSED" ELSE "DRAFT"]}
=============================================================================
