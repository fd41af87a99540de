------------------------------- MODULE Roles -------------------------------
(***************************************************************************)
(* Who may open which page of the console and press which button            *)
(* (apps/web/lib/rbac.ts), next to the roles the endpoint behind each       *)
(* button admits (require_roles in apps/api/routers).  A token carries a    *)
(* role as the backend signed it; a role the console does not know, or no   *)
(* operator at all, falls to UNKNOWN.                                       *)
(***************************************************************************)
EXTENDS Naturals

CONSTANT Foreign    \* a role in a token that no table of the console lists

Pages == {"dashboard", "planner-weekly", "approvals", "ledger",
          "corridor-map", "string-chart", "planner-26w", "disruptions"}

Actions == {"solve", "approve_srdom", "authorize_drm", "modify", "transmit",
            "activate", "fitness", "archive", "cancel", "ack_sm", "ack_ctl",
            "drill", "incident_ack", "blast_radius", "ledger_verify"}

Roles == {"SR_DOM", "DRM", "CONTROLLER", "ENGINEER", "STATION_MASTER",
          "AUDITOR", "ADMIN", "UNKNOWN"}

\* The display spellings the persona table and the alias table fold.
Aliases == {"Sr. DOM", "Station Master", "CHIEF_CONTROLLER",
            "Chief Controller", "SR_DEN", "SSE", "SSE Engineer"}

ASSUME ForeignAssumption == Foreign \notin Roles \cup Aliases

RawRoles == Roles \cup Aliases \cup {Foreign}

PersonaRole(raw) ==
    CASE raw = "Sr. DOM"          -> "SR_DOM"
      [] raw = "Station Master"   -> "STATION_MASTER"
      [] raw = "Chief Controller" -> "CHIEF_CONTROLLER"
      [] raw = "SSE Engineer"     -> "SSE"
      [] raw = Foreign            -> "UNKNOWN"
      [] OTHER                    -> raw

NormalizeRole(shown) ==
    CASE shown = "CHIEF_CONTROLLER"   -> "CONTROLLER"
      [] shown \in {"SSE", "SR_DEN"}  -> "ENGINEER"
      [] shown \in Roles              -> shown
      [] OTHER                        -> "UNKNOWN"

Desks == {"dashboard", "approvals", "corridor-map", "string-chart"}

PagesOf(role) ==
    CASE role = "SR_DOM"         -> Pages \ {"ledger"}
      [] role \in {"DRM", "ENGINEER"}
                                 -> Desks \cup {"planner-26w", "disruptions"}
      [] role = "CONTROLLER"     -> Desks \cup {"planner-weekly", "disruptions"}
      [] role = "STATION_MASTER" -> Desks
      [] role = "AUDITOR"        -> {"dashboard", "ledger", "corridor-map"}
      [] role = "ADMIN"          -> Pages
      [] role = "UNKNOWN"        -> {"dashboard"}
\* MUTANT of ActionsOf: the Engineer is offered the release of the line.
ActionsOfLoose(role) == IF role = "ENGINEER" THEN {"modify", "fitness", "activate"} ELSE {}

ActionsOf(role) ==
    CASE role = "SR_DOM"         -> {"solve", "approve_srdom", "modify",
                                     "transmit", "cancel", "blast_radius"}
      [] role = "DRM"            -> {"authorize_drm", "cancel", "blast_radius"}
      [] role = "CONTROLLER"     -> {"drill", "incident_ack", "ack_ctl",
                                     "transmit", "activate", "fitness",
                                     "blast_radius"}
      [] role = "ENGINEER"       -> {"modify", "fitness", "blast_radius"}
      [] role = "STATION_MASTER" -> {"ack_sm", "fitness"}
      [] role = "AUDITOR"        -> {"ledger_verify", "archive"}
      [] role = "ADMIN"          -> Actions
      [] role = "UNKNOWN"        -> {}

CanPage(shown, page)  == page \in PagesOf(NormalizeRole(shown))
Can(shown, action)    == action \in ActionsOf(NormalizeRole(shown))

\* The roles the endpoint behind a button admits, router by router.
PlanRoles(action) ==
    CASE action = "modify"    -> {"SR_DOM", "ENGINEER", "ADMIN"}
      [] action = "transmit"  -> {"SR_DOM", "CONTROLLER", "ADMIN"}
      [] action = "activate"  -> {"CONTROLLER", "ADMIN"}
      [] action = "fitness"   -> {"ENGINEER", "STATION_MASTER", "CONTROLLER", "ADMIN"}
      [] action = "archive"   -> {"ADMIN", "AUDITOR"}
      [] action = "cancel"    -> {"SR_DOM", "DRM", "ADMIN"}
      [] action \in {"ack_sm", "ack_ctl"}
                              -> {"STATION_MASTER", "CONTROLLER", "ADMIN"}

\* Both branches of decide are behind one dependency; each wants its own role.
DecisionRoles(action) == IF action = "approve_srdom" THEN {"SR_DOM"} ELSE {"DRM"}

EmergencyRoles(action) ==
    IF action = "blast_radius" THEN {"CONTROLLER", "SR_DOM", "DRM", "ENGINEER", "ADMIN"}
                               ELSE {"CONTROLLER"}

IncidentAckRoles == {"CONTROLLER"}
SolveRoles       == {"SR_DOM", "ADMIN"}
LedgerRoles      == {"AUDITOR", "ADMIN"}

Admitted(action) ==
    CASE action \in {"approve_srdom", "authorize_drm"} -> DecisionRoles(action)
      [] action \in {"drill", "blast_radius"} -> EmergencyRoles(action)
      [] action = "incident_ack"  -> IncidentAckRoles
      [] action = "solve"         -> SolveRoles
      [] action = "ledger_verify" -> LedgerRoles
      [] OTHER                    -> PlanRoles(action)

\* The pages the sidebar and the page search offer: the others are absent.
NavOf(shown) == {p \in Pages : CanPage(shown, p)}

\* The routes of the gated console; a path that is none of them has no page,
\* and the gate lets it through.
Paths == [p \in Pages |->
            CASE p = "planner-weekly" -> "/planner/weekly"
              [] p = "planner-26w"    -> "/planner/26-week"
              [] p = "ledger"         -> "/audit-ledger"
              [] p = "dashboard"      -> "/dashboard"
              [] p = "approvals"      -> "/approvals"
              [] p = "corridor-map"   -> "/corridor-map"
              [] p = "string-chart"   -> "/string-chart"
              [] p = "disruptions"    -> "/disruptions"]

Denied(shown, path) ==
    \E p \in Pages \ NavOf(shown) : Paths[p] = path
============================================================================
