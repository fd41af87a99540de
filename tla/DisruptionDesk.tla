--------------------------- MODULE DisruptionDesk ---------------------------
(***************************************************************************)
(* The disruptions page of one operator                                    *)
(* (components/dashboard/atlas-disruptions.tsx): the form of the emergency *)
(* drill with its impact check and confirmation, and the list of incidents *)
(* with the Controller's approval.  The backend takes a breakdown and an   *)
(* approval whole here; Emergency opens them up.                           *)
(***************************************************************************)
EXTENDS Roles, Absent

CONSTANTS Sections, Durations, Incidents,
          FirstDuration,    \* the duration the form opens with: 90 minutes
          DisruptRoles,     \* the roles an instance looks at
          MaxChanges        \* bound: changes of the form and impact checks

VARIABLES
    drole,         \* of the operator at the desk
    section,       \* the section picked, None at first
    duration,      \* the estimated duration
    ready,         \* the sections' identifiers are known
    blast,         \* the impact shown: the section and duration it was computed for
    acknowledged,  \* the box under it is ticked
    firing,        \* the drill being started, None while the button is free
    changes,       \* changes of the form and impact checks so far
    checks,        \* impact checks under way
    store,         \* incident -> None, waiting or approved, in the backend
    listed,        \* the same in the list shown, None before a list
    loads,         \* the reload of the mount and the one of the drill
    approving,     \* approvals under way
    ackBusy        \* the incident whose button is held

disruptVars == <<drole, section, duration, ready, blast, acknowledged, firing, changes,
                 checks, store, listed, loads, approving, ackBusy>>

Impact == [section : Sections, duration : Durations]
Lists  == [Incidents -> {None, "waiting", "approved"}]
Reloads == {"mount", "drill"}

ASSUME DisruptAssumption ==
    /\ FirstDuration \in Durations /\ MaxChanges \in Nat
    /\ DisruptRoles \subseteq Roles
    /\ None \notin Sections \cup Impact \cup {"waiting", "approved"}

DisruptTypeOK ==
    /\ drole \in DisruptRoles
    /\ section \in Sections \cup {None} /\ duration \in Durations
    /\ ready \in BOOLEAN /\ acknowledged \in BOOLEAN
    /\ blast \in Impact \cup {None}
    /\ firing \in [impact : Impact, shown : Impact] \cup {None}
    /\ changes \in 0..MaxChanges
    /\ checks \subseteq Impact
    /\ store \in Lists /\ listed \in Lists \cup {None}
    /\ loads \in [Reloads -> [at : {"idle", "sections", "incidents", "served"},
                             got : Lists]]
    /\ approving \subseteq Incidents
    /\ ackBusy \in Incidents \cup {None}

NoIncidents == [i \in Incidents |-> None]

DisruptInit ==
    /\ drole \in DisruptRoles
    /\ section = None /\ duration = FirstDuration /\ ready = FALSE
    /\ blast = None /\ acknowledged = FALSE /\ firing = None
    /\ changes = 0 /\ checks = {}
    /\ store = NoIncidents /\ listed = None
    /\ loads = [r \in Reloads |-> [at |-> IF r = "mount" THEN "sections" ELSE "idle",
                                  got |-> NoIncidents]]
    /\ approving = {} /\ ackBusy = None

form == <<section, duration, blast, acknowledged>>
list == <<store, listed, approving, ackBusy>>

Change == changes < MaxChanges /\ changes' = changes + 1

\* The form's fields leave the impact and the box alone.
PickSection(s) ==
    /\ Change /\ s # section /\ section' = s
    /\ UNCHANGED <<drole, duration, ready, blast, acknowledged, firing, checks, loads, list>>

SetDuration(d) ==
    /\ Change /\ d # duration /\ duration' = d
    /\ UNCHANGED <<drole, section, ready, blast, acknowledged, firing, checks, loads, list>>
\* MUTANT of CheckImpact: the tick of the last impact stays.
CheckImpactTicked ==
    /\ Change /\ Can(drole, "blast_radius") /\ ready /\ section # None
    /\ blast' = None
    /\ checks' = checks \cup {[section |-> section, duration |-> duration]}
    /\ UNCHANGED <<drole, section, duration, ready, acknowledged, firing, loads, list>>

CheckImpact ==
    /\ Change /\ Can(drole, "blast_radius") /\ ready /\ section # None
    /\ blast' = None /\ acknowledged' = FALSE
    /\ checks' = checks \cup {[section |-> section, duration |-> duration]}
    /\ UNCHANGED <<drole, section, duration, ready, firing, loads, list>>

\* The impact that arrives last is the one shown.
ImpactArrives(c) ==
    /\ checks' = checks \ {c}
    /\ blast' \in {c, blast}          \* a failure leaves what is shown
    /\ UNCHANGED <<drole, section, duration, ready, acknowledged, firing, changes, loads, list>>

TickBox ==
    /\ blast # None /\ Can(drole, "drill")
    /\ acknowledged' = ~acknowledged
    /\ UNCHANGED <<drole, section, duration, ready, blast, firing, changes, checks, loads, list>>

\* The drill is started for the section and duration in the form by now, and the
\* box is sent along as the confirmation.  `shown` is the impact on the screen.
FireDrill ==
    /\ Can(drole, "drill") /\ acknowledged /\ firing = None /\ ready /\ section # None
    /\ firing' = [impact |-> [section |-> section, duration |-> duration],
                  shown |-> blast]
    /\ UNCHANGED <<drole, form, ready, changes, checks, loads, list>>

Report(i) == store[i] = None /\ store' = [store EXCEPT ![i] = "waiting"]

\* After a success the page reloads before it frees the button.
DrillStarted ==
    /\ firing # None /\ loads["drill"].at = "idle"
    /\ \E i \in Incidents : Report(i)
    /\ loads' = [loads EXCEPT !["drill"].at = "sections"]
    /\ UNCHANGED <<drole, form, ready, firing, changes, checks, listed, approving, ackBusy>>
\* MUTANT of DrillFails: a refusal does not free the button.
DrillFailsHeld ==
    /\ firing # None /\ loads["drill"].at = "idle"
    /\ \E i \in Incidents : Report(i)
    /\ UNCHANGED <<drole, form, ready, firing, changes, checks, loads, listed, approving,
                   ackBusy>>

\* A refusal, or an answer lost after the incident was committed.
DrillFails ==
    /\ firing # None /\ loads["drill"].at = "idle"
    /\ (\E i \in Incidents : Report(i)) \/ UNCHANGED store
    /\ firing' = None
    /\ UNCHANGED <<drole, form, ready, changes, checks, loads, listed, approving, ackBusy>>

\* Without the sections the buttons are off, also when the reload of a drill is the
\* one that fails.
SectionsArrive(r) ==
    /\ loads[r].at = "sections"
    /\ ready' \in BOOLEAN
    /\ loads' = [loads EXCEPT ![r].at = "incidents"]
    /\ UNCHANGED <<drole, form, firing, changes, checks, list>>

ServeIncidents(r) ==
    /\ loads[r].at = "incidents"
    /\ loads' = [loads EXCEPT ![r] = [at |-> "served", got |-> store]]
    /\ UNCHANGED <<drole, form, ready, firing, changes, checks, list>>

\* An empty list stands in for one that failed.
IncidentsArrive(r) ==
    /\ loads[r].at \in {"incidents", "served"}
    /\ listed' = NoIncidents \/ (loads[r].at = "served" /\ listed' = loads[r].got)
    /\ loads' = [loads EXCEPT ![r] = [at |-> "idle", got |-> NoIncidents]]
    /\ firing' = IF r = "drill" THEN None ELSE firing
    /\ UNCHANGED <<drole, form, ready, changes, checks, store, approving, ackBusy>>
\* MUTANT of PressApprove: the incident is marked before the backend answers.
PressApproveMarked(i) ==
    /\ listed # None /\ listed[i] = "waiting"
    /\ Can(drole, "drill") /\ ackBusy # i
    /\ ackBusy' = i /\ approving' = approving \cup {i}
    /\ listed' = [listed EXCEPT ![i] = "approved"]
    /\ UNCHANGED <<drole, form, ready, firing, changes, checks, store, loads>>

\* A second request for an incident stands for the first.
PressApprove(i) ==
    /\ listed # None /\ listed[i] = "waiting"
    /\ Can(drole, "drill") /\ ackBusy # i
    /\ ackBusy' = i /\ approving' = approving \cup {i}
    /\ UNCHANGED <<drole, form, ready, firing, changes, checks, store, listed, loads>>

\* The incident listed is marked at once; whichever button is held is let go.
IncidentApproved(i) ==
    /\ i \in approving /\ store[i] # None
    /\ store' = [store EXCEPT ![i] = "approved"]
    /\ listed' = IF listed # None /\ listed[i] # None
                 THEN [listed EXCEPT ![i] = "approved"] ELSE listed
    /\ approving' = approving \ {i} /\ ackBusy' = None
    /\ UNCHANGED <<drole, form, ready, firing, changes, checks, loads>>

ApprovalFails(i) ==
    /\ i \in approving
    /\ store' \in {store, [store EXCEPT ![i] = "approved"]}
    /\ approving' = approving \ {i} /\ ackBusy' = None
    /\ UNCHANGED <<drole, form, ready, firing, changes, checks, listed, loads>>

DrillAnswer ==
    \/ DrillStarted \/ DrillFails
    \/ SectionsArrive("drill") \/ ServeIncidents("drill") \/ IncidentsArrive("drill")

DisruptNext ==
    \/ \E s \in Sections : PickSection(s)
    \/ \E d \in Durations : SetDuration(d)
    \/ CheckImpact \/ TickBox \/ FireDrill \/ DrillAnswer
    \/ SectionsArrive("mount") \/ ServeIncidents("mount") \/ IncidentsArrive("mount")
    \/ \E c \in checks : ImpactArrives(c)
    \/ \E i \in Incidents : PressApprove(i) \/ IncidentApproved(i) \/ ApprovalFails(i)

DisruptSpec == DisruptInit /\ [][DisruptNext]_disruptVars

\* A drill goes out only over an impact that was on the screen and confirmed: the
\* box never stays ticked without one, whichever checks are still under way
\* (atlas-disruptions.tsx:208-220, 358-426).
ConfirmedOverAnImpact ==
    /\ acknowledged => blast # None
    /\ firing # None => firing.shown # None

\* The impact confirmed is the impact of the drill that is started: the section the
\* operator checked is the section whose plans are revoked.
ConfirmedThisImpact == firing # None => firing.shown.section = firing.impact.section

\* An incident is listed as approved only when the backend holds it approved,
\* whatever order approvals, failures and reloads answer in
\* (atlas-disruptions.tsx:157-206).
ListedApprovalIsReal ==
    listed # None =>
        \A i \in Incidents : listed[i] = "approved" => store[i] = "approved"

\* The button of the drill is freed again: by the refusal, or when the reload after
\* it has ended, well or badly (atlas-disruptions.tsx:222-246).
DrillIsFreed == firing # None ~> firing = None
============================================================================
