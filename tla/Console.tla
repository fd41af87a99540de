------------------------------ MODULE Console ------------------------------
(***************************************************************************)
(* The web console (apps/web): a browser tab with its session, the live    *)
(* stream of its shell, and one page.  Pages share no state; each starts   *)
(* afresh when it is opened and its state goes when it is left.  So a      *)
(* behaviour here is that of the one part `part` names, in its own state   *)
(* space, with the others at rest where they start.                        *)
(***************************************************************************)
EXTENDS ConsoleSession, LiveFeed, ApprovalsDesk, DisruptionDesk, PlannerDesk,
        Dashboard, LedgerDesk, WeatherCard, CorridorMap

VARIABLE part

Parts == {"session", "feed", "approvals", "disruptions", "planner", "dashboard",
          "ledger", "weather", "map"}

consoleVars == <<part, sessionVars, feedVars, deskVars, disruptVars, plannerVars,
                 dashVars, ledgerDeskVars, weatherVars, mapVars>>

\* One initial state of every part at rest is enough.
AtRest ==
    /\ part # "session" => route = "login" /\ durable
    /\ part # "feed" => signedIn
    /\ part # "approvals" =>
          /\ role = CHOOSE r \in DeskRoles : TRUE
          /\ status = CHOOSE s \in Starts : TRUE
          /\ calls[CHOOSE i \in Slots : TRUE] # None
    /\ part # "disruptions" =>
          drole = CHOOSE r \in DisruptRoles : TRUE
    /\ part # "planner" =>
          committed = [h \in Horizons |-> 0]
    /\ part # "dashboard" => refreshes[CHOOSE i \in Refreshes : TRUE] # None
    /\ part # "weather" => asks[CHOOSE i \in Asks : TRUE] # None
    /\ part # "map" => fetches[CHOOSE i \in MapLoads : TRUE] # None

ConsoleInit ==
    /\ part \in Parts
    /\ SessionInit /\ FeedInit /\ DeskInit /\ DisruptInit /\ PlannerInit
    /\ DashInit /\ LedgerDeskInit /\ WeatherInit /\ MapInit
    /\ AtRest

Rest(p, vars) == IF part = p THEN TRUE ELSE UNCHANGED vars

ConsoleNext ==
    /\ UNCHANGED part
    /\ \/ part = "session"     /\ SessionNext
       \/ part = "feed"        /\ FeedNext
       \/ part = "approvals"   /\ DeskNext
       \/ part = "disruptions" /\ DisruptNext
       \/ part = "planner"     /\ PlannerNext
       \/ part = "dashboard"   /\ DashNext
       \/ part = "ledger"      /\ LedgerDeskNext
       \/ part = "weather"     /\ WeatherNext
       \/ part = "map"         /\ MapNext
    /\ Rest("session", sessionVars) /\ Rest("feed", feedVars)
    /\ Rest("approvals", deskVars) /\ Rest("disruptions", disruptVars)
    /\ Rest("planner", plannerVars) /\ Rest("dashboard", dashVars)
    /\ Rest("ledger", ledgerDeskVars) /\ Rest("weather", weatherVars)
    /\ Rest("map", mapVars)

\* The intervals of a mounted page run, and a request is answered or fails.
ConsoleFairness ==
    /\ WF_feedVars(part = "feed" /\ Watchdog)
    /\ \A i \in Slots : WF_deskVars(part = "approvals" /\ Answer(i))
    /\ WF_disruptVars(part = "disruptions" /\ DrillAnswer)

ConsoleSpec == ConsoleInit /\ [][ConsoleNext]_consoleVars /\ ConsoleFairness

\* The variables of every part keep their types.
ConsoleTypeOK ==
    /\ part \in Parts
    /\ SessionTypeOK /\ FeedTypeOK /\ DeskTypeOK /\ DisruptTypeOK /\ PlannerTypeOK
    /\ DashTypeOK /\ LedgerDeskTypeOK /\ WeatherTypeOK /\ MapTypeOK
============================================================================
