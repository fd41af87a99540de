----------------------------- MODULE PlannerDesk -----------------------------
(***************************************************************************)
(* The weekly planner's page (components/dashboard/atlas-planner.tsx): the *)
(* horizon tabs, the rows of the tab's horizon, the solve button, and the  *)
(* polling that a queued solve starts.  A horizon's rows are counted; the  *)
(* worker of the backend commits more of them at any time.                 *)
(***************************************************************************)
EXTENDS Naturals, FiniteSets, Absent

CONSTANTS Horizons,
          FirstTab,     \* the tab the page opens with: WEEKLY
          MaxRows,      \* bound: rows committed per horizon
          MaxLoads,     \* bound: loads under way at a time
          MaxSolves     \* bound: solves queued

ASSUME PlannerAssumption ==
    /\ None \notin Horizons /\ FirstTab \in Horizons
    /\ MaxRows \in Nat \ {0} /\ MaxLoads \in Nat /\ MaxSolves \in Nat

VARIABLES
    horizon,    \* the tab
    planRows,   \* the answer held: whose rows, and how many; None before one
    planLoads,  \* loads under way, with the horizon each asks for
    served,     \* answers on their way
    posting,    \* the horizon a solve is being queued for
    solves,     \* solves queued so far: the last one is on the card
    polling,    \* the horizon the running interval asks for, None without one
    committed   \* horizon -> rows the backend holds

plannerVars == <<horizon, planRows, planLoads, served, posting, solves, polling, committed>>

Rows == [of : Horizons, n : 0..MaxRows]

PlannerTypeOK ==
    /\ horizon \in Horizons
    /\ planRows \in Rows \cup {None}
    /\ planLoads \subseteq Horizons
    /\ served \subseteq Rows
    /\ posting \in Horizons \cup {None}
    /\ solves \in 0..MaxSolves
    /\ polling \in Horizons \cup {None}
    /\ committed \in [Horizons -> 0..MaxRows]

PlannerInit ==
    /\ horizon = FirstTab
    /\ planRows = None /\ planLoads = {horizon} /\ served = {}
    /\ posting = None /\ solves = 0 /\ polling = None
    /\ committed \in [Horizons -> 0..1]
\* MUTANT of Shown: the answer held is shown under any tab.
ShownUnfiltered == IF planRows # None THEN planRows.n ELSE 0

\* The rows of the table: what is held, when it is of the tab's horizon.
Shown ==
    IF planRows # None /\ planRows.of = horizon THEN planRows.n ELSE 0

\* The effect of the queued solve and the tab: the interval of before is cleared,
\* and one of the tab's is set once a solve is queued.
Polling(h, k) == polling' = IF k = 0 THEN None ELSE h

ChooseTab(h) ==
    /\ h # horizon
    /\ horizon' = h
    /\ planLoads' = planLoads \cup {h}
    /\ Polling(h, solves)
    /\ UNCHANGED <<planRows, served, posting, solves, committed>>

PressSolve ==
    /\ posting = None /\ solves < MaxSolves
    /\ posting' = horizon
    /\ UNCHANGED <<horizon, planRows, planLoads, served, solves, polling, committed>>

\* Queued: the table waits for a new answer, and the tab of now is polled.
SolveQueued ==
    /\ posting # None
    /\ posting' = None
    /\ solves' = solves + 1
    /\ planRows' = None
    /\ Polling(horizon, solves')
    /\ UNCHANGED <<horizon, planLoads, served, committed>>

SolveRefused ==
    /\ posting # None
    /\ posting' = None
    /\ UNCHANGED <<horizon, planRows, planLoads, served, solves, polling, committed>>

\* Every five seconds the interval asks again, whatever is still under way.
Poll ==
    /\ polling # None
    /\ planLoads' = planLoads \cup {polling}
    /\ UNCHANGED <<horizon, planRows, served, posting, solves, polling, committed>>

\* After two minutes it stops.
PollStops ==
    /\ polling # None
    /\ polling' = None
    /\ UNCHANGED <<horizon, planRows, planLoads, served, posting, solves, committed>>

ServePlans(h) ==
    /\ Cardinality(served) < MaxLoads
    /\ planLoads' = planLoads \ {h}
    /\ served' = served \cup {[of |-> h, n |-> committed[h]]}
    /\ UNCHANGED <<horizon, planRows, posting, solves, polling, committed>>

\* Answers arrive in any order, and the one that arrives is held.
PlansArrive(r) ==
    /\ served' = served \ {r}
    /\ planRows' = r
    /\ UNCHANGED <<horizon, planLoads, posting, solves, polling, committed>>

\* A failing load of the tab leaves an empty table, one of a poll nothing.
PlansFail(h) ==
    /\ planLoads' = planLoads \ {h}
    /\ planRows' \in {planRows, [of |-> horizon, n |-> 0]}
    /\ UNCHANGED <<horizon, served, posting, solves, polling, committed>>

WorkerCommits(h) ==
    /\ committed[h] < MaxRows
    /\ committed' = [committed EXCEPT ![h] = @ + 1]
    /\ UNCHANGED <<horizon, planRows, planLoads, served, posting, solves, polling>>

PlannerNext ==
    \/ \E h \in Horizons : ChooseTab(h) \/ WorkerCommits(h)
    \/ PressSolve \/ SolveQueued \/ SolveRefused \/ Poll \/ PollStops
    \/ \E h \in planLoads : ServePlans(h) \/ PlansFail(h)
    \/ \E r \in served : PlansArrive(r)

PlannerSpec == PlannerInit /\ [][PlannerNext]_plannerVars

\* A slow answer of another tab shows nothing under this one: a tab never counts
\* more plans as committed than the backend holds for its horizon
\* (atlas-planner.tsx:178-203).
NoForeignRows == Shown <= committed[horizon]
============================================================================
