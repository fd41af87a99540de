------------------------------ MODULE Dashboard ------------------------------
(***************************************************************************)
(* The operations overview (components/dashboard/atlas-dashboard.tsx): a   *)
(* refresh asks for the summary and then for the plans, and one starts     *)
(* with the page, every 30 seconds, whenever the stream connects, and on   *)
(* the operator's word, also while others are under way.                   *)
(***************************************************************************)
EXTENDS Naturals, Absent

CONSTANTS Refreshes,    \* bound: refreshes under way at a time
          MaxVersion    \* bound: states the backend goes through

VARIABLES
    version,       \* the state of the backend, by number
    summary,       \* the state the figures are of, 0 before an answer
    grid,          \* the state the week grid is of, 0 while it is empty
    refreshFailed, \* the error banner
    loading1st,    \* skeletons in place of the figures
    stamped,       \* the page says when it was updated
    connected,     \* the stream is live
    refreshes      \* refresh -> where it stands, None when it is not under way

dashVars == <<version, summary, grid, refreshFailed, loading1st, stamped,
              connected, refreshes>>

Versions == 1..MaxVersion
Refresh == [leg : {"summary", "plans"}, got : Versions \cup {None}]

ASSUME DashboardAssumption ==
    /\ MaxVersion \in Nat \ {0}
    /\ None \notin Versions \cup Refresh

DashTypeOK ==
    /\ version \in Versions
    /\ summary \in Versions \cup {0} /\ grid \in Versions \cup {0}
    /\ refreshFailed \in BOOLEAN /\ loading1st \in BOOLEAN
    /\ stamped \in BOOLEAN /\ connected \in BOOLEAN
    /\ refreshes \in [Refreshes -> Refresh \cup {None}]

Asked(leg) == [leg |-> leg, got |-> None]

DashInit ==
    /\ version = 1 /\ summary = 0 /\ grid = 0
    /\ refreshFailed = FALSE /\ loading1st = TRUE /\ stamped = FALSE
    /\ connected = FALSE
    /\ \E i \in Refreshes :
          refreshes = [j \in Refreshes |-> IF j = i THEN Asked("summary") ELSE None]

\* A refresh that starts takes the banner of the others down.
StartRefresh ==
    /\ \E i \in Refreshes : /\ refreshes[i] = None
                            /\ refreshes' = [refreshes EXCEPT ![i] = Asked("summary")]
    /\ refreshFailed' = FALSE

\* The timer, the two buttons, and the stream when it connects.
RefreshAgain ==
    /\ StartRefresh
    /\ UNCHANGED <<version, summary, grid, loading1st, stamped, connected>>

StreamConnects ==
    /\ ~connected /\ connected' = TRUE
    /\ StartRefresh
    /\ UNCHANGED <<version, summary, grid, loading1st, stamped>>

StreamDrops ==
    /\ connected /\ connected' = FALSE
    /\ UNCHANGED <<version, summary, grid, refreshFailed, loading1st, stamped, refreshes>>

ServeRefresh(i) ==
    /\ refreshes[i] # None /\ refreshes[i].got = None
    /\ refreshes' = [refreshes EXCEPT ![i].got = version]
    /\ UNCHANGED <<version, summary, grid, refreshFailed, loading1st, stamped, connected>>

SummaryArrives(i) ==
    /\ refreshes[i] # None /\ refreshes[i].leg = "summary" /\ refreshes[i].got # None
    /\ summary' = refreshes[i].got
    /\ refreshes' = [refreshes EXCEPT ![i] = Asked("plans")]
    /\ UNCHANGED <<version, grid, refreshFailed, loading1st, stamped, connected>>
\* MUTANT of SummaryFails: the failure raises no banner.
SummaryFailsUnseen(i) ==
    /\ refreshes[i] # None /\ refreshes[i].leg = "summary"
    /\ loading1st' = FALSE
    /\ refreshes' = [refreshes EXCEPT ![i] = None]
    /\ UNCHANGED <<version, summary, grid, refreshFailed, stamped, connected>>

SummaryFails(i) ==
    /\ refreshes[i] # None /\ refreshes[i].leg = "summary"
    /\ refreshFailed' = TRUE /\ loading1st' = FALSE
    /\ refreshes' = [refreshes EXCEPT ![i] = None]
    /\ UNCHANGED <<version, summary, grid, stamped, connected>>

\* The plans that do not come leave the grid of before, under a new stamp.
PlansEnd(i) ==
    /\ refreshes[i] # None /\ refreshes[i].leg = "plans"
    /\ grid' = grid \/ (refreshes[i].got # None /\ grid' = refreshes[i].got)
    /\ stamped' = TRUE /\ loading1st' = FALSE
    /\ refreshes' = [refreshes EXCEPT ![i] = None]
    /\ UNCHANGED <<version, summary, refreshFailed, connected>>

BackendMoves ==
    /\ version < MaxVersion /\ version' = version + 1
    /\ UNCHANGED <<summary, grid, refreshFailed, loading1st, stamped, connected, refreshes>>

DashNext ==
    \/ RefreshAgain \/ StreamConnects \/ StreamDrops \/ BackendMoves
    \/ \E i \in Refreshes :
          \/ ServeRefresh(i) \/ SummaryArrives(i) \/ SummaryFails(i) \/ PlansEnd(i)

DashSpec == DashInit /\ [][DashNext]_dashVars

\* However refreshes overlap and fail, a page that shows neither a banner nor a
\* refresh under way shows figures the backend did answer, and its stamp never
\* stands over figures that were not (atlas-dashboard.tsx:263-290).
SilentMeansLoaded ==
    /\ ~refreshFailed /\ (\A i \in Refreshes : refreshes[i] = None) => summary # 0
    /\ stamped => summary # 0
============================================================================
