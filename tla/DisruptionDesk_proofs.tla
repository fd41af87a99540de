----------------------- MODULE DisruptionDesk_proofs -----------------------
(***************************************************************************)
(* The confirmation of a drill and the approvals listed, for any number of *)
(* sections, durations and incidents.                                      *)
(***************************************************************************)
EXTENDS DisruptionDesk, TLAPS

\* An approval read by a reload that is under way is one the backend holds.
DisruptInv ==
    /\ DisruptTypeOK
    /\ ConfirmedOverAnImpact
    /\ ListedApprovalIsReal
    /\ \A r \in Reloads, i \in Incidents :
          loads[r].got[i] = "approved" => store[i] = "approved"

\* An incident that is reported takes no approval away.
LEMMA ReportKeeps ==
    ASSUME DisruptInv, NEW i \in Incidents, Report(i)
    PROVE  /\ store' \in Lists
           /\ \A j \in Incidents : store[j] = "approved" => store'[j] = "approved"
BY DisruptAssumption DEF DisruptInv, DisruptTypeOK, Report, Lists

\* An approval takes no other away.
LEMMA ApprovalKeeps ==
    ASSUME DisruptInv, NEW i \in Incidents,
           store' = [store EXCEPT ![i] = "approved"] \/ store' = store
    PROVE  /\ store' \in Lists
           /\ \A j \in Incidents : store[j] = "approved" => store'[j] = "approved"
BY DEF DisruptInv, DisruptTypeOK, Lists

LEMMA DisruptInitInv == DisruptInit => DisruptInv
<1> SUFFICES ASSUME DisruptInit PROVE DisruptInv
  OBVIOUS
<1>1. NoIncidents \in Lists /\ \A i \in Incidents : NoIncidents[i] # "approved"
  BY DisruptAssumption DEF NoIncidents, Lists
<1>2. /\ loads \in [Reloads -> [at : {"idle", "sections", "incidents", "served"},
                                got : Lists]]
      /\ \A r \in Reloads : loads[r].got = NoIncidents
  BY <1>1 DEF DisruptInit
<1>3. DisruptTypeOK
  <2>1. /\ drole \in DisruptRoles
        /\ section \in Sections \cup {None} /\ duration \in Durations
        /\ changes \in 0..MaxChanges /\ checks \subseteq Impact
    BY DisruptAssumption DEF DisruptInit
  <2>2. ready \in BOOLEAN /\ acknowledged \in BOOLEAN
    BY DEF DisruptInit
  <2>3. /\ blast \in Impact \cup {None}
        /\ firing \in [impact : Impact, shown : Impact] \cup {None}
        /\ approving \subseteq Incidents /\ ackBusy \in Incidents \cup {None}
        /\ store \in Lists /\ listed \in Lists \cup {None}
    BY <1>1 DEF DisruptInit
  <2> QED BY <1>2, <2>1, <2>2, <2>3 DEF DisruptTypeOK
<1> QED
  BY <1>1, <1>2, <1>3
  DEF DisruptInit, DisruptInv, ConfirmedOverAnImpact, ListedApprovalIsReal

LEMMA DisruptStep == DisruptInv /\ [DisruptNext]_disruptVars => DisruptInv'
<1> SUFFICES ASSUME DisruptInv, [DisruptNext]_disruptVars PROVE DisruptInv'
  OBVIOUS
<1> USE DisruptAssumption DEF DisruptInv, DisruptTypeOK, ConfirmedOverAnImpact,
        ListedApprovalIsReal, form, list
<1>1. ASSUME NEW s \in Sections, PickSection(s) PROVE DisruptInv'
  BY <1>1 DEF PickSection, Change
<1>2. ASSUME NEW d \in Durations, SetDuration(d) PROVE DisruptInv'
  BY <1>2 DEF SetDuration, Change
<1>3. CASE CheckImpact
  <2>1. checks' \subseteq Impact
    BY <1>3 DEF CheckImpact, Impact
  <2>2. changes' \in 0..MaxChanges
    BY <1>3 DEF CheckImpact, Change
  <2>3. blast' = None /\ acknowledged' = FALSE
    BY <1>3 DEF CheckImpact
  <2>4. ConfirmedOverAnImpact' /\ ListedApprovalIsReal'
    BY <1>3, <2>3 DEF CheckImpact
  <2>5. DisruptTypeOK'
    BY <1>3, <2>1, <2>2, <2>3 DEF CheckImpact
  <2> QED BY <1>3, <2>4, <2>5 DEF CheckImpact
<1>4. CASE TickBox
  BY <1>4 DEF TickBox
<1>5. CASE FireDrill
  <2>1. firing' \in [impact : Impact, shown : Impact] /\ firing'.shown # None
    BY <1>5 DEF FireDrill, Impact
  <2> QED BY <1>5, <2>1 DEF FireDrill
<1>6. CASE DrillStarted
  <2>1. /\ loads' \in [Reloads -> [at : {"idle", "sections", "incidents", "served"},
                                  got : Lists]]
        /\ \A r \in Reloads : loads'[r].got = loads[r].got
    BY <1>6 DEF DrillStarted, Reloads
  <2>2. /\ store' \in Lists
        /\ \A j \in Incidents : store[j] = "approved" => store'[j] = "approved"
    BY <1>6, ReportKeeps DEF DrillStarted
  <2> QED BY <1>6, <2>1, <2>2 DEF DrillStarted
<1>7. CASE DrillFails
  <2>1. /\ store' \in Lists
        /\ \A j \in Incidents : store[j] = "approved" => store'[j] = "approved"
    BY <1>7, ReportKeeps DEF DrillFails
  <2> QED BY <1>7, <2>1 DEF DrillFails
<1>8. ASSUME NEW r \in Reloads, SectionsArrive(r) PROVE DisruptInv'
  <2>1. /\ loads' \in [Reloads -> [at : {"idle", "sections", "incidents", "served"},
                                  got : Lists]]
        /\ \A q \in Reloads : loads'[q].got = loads[q].got
    BY <1>8 DEF SectionsArrive
  <2> QED BY <1>8, <2>1 DEF SectionsArrive
<1>9. ASSUME NEW r \in Reloads, ServeIncidents(r) PROVE DisruptInv'
  <2>1. /\ loads' \in [Reloads -> [at : {"idle", "sections", "incidents", "served"},
                                  got : Lists]]
        /\ \A q \in Reloads : loads'[q].got \in {store, loads[q].got}
    BY <1>9 DEF ServeIncidents
  <2> QED BY <1>9, <2>1 DEF ServeIncidents
<1>10. ASSUME NEW r \in Reloads, IncidentsArrive(r) PROVE DisruptInv'
  <2>1. NoIncidents \in Lists /\ \A i \in Incidents : NoIncidents[i] # "approved"
    BY DEF NoIncidents, Lists
  <2>2. /\ loads' \in [Reloads -> [at : {"idle", "sections", "incidents", "served"},
                                  got : Lists]]
        /\ \A q \in Reloads : loads'[q].got \in {NoIncidents, loads[q].got}
    BY <1>10, <2>1 DEF IncidentsArrive
  <2>3. listed' \in {NoIncidents, loads[r].got}
    BY <1>10 DEF IncidentsArrive
  <2>4. DisruptTypeOK'
    BY <1>10, <2>1, <2>2, <2>3 DEF IncidentsArrive
  <2>5. ConfirmedOverAnImpact'
    BY <1>10 DEF IncidentsArrive
  <2>6. ListedApprovalIsReal'
    BY <1>10, <2>1, <2>3 DEF IncidentsArrive
  <2>7. \A q \in Reloads, i \in Incidents :
           loads'[q].got[i] = "approved" => store'[i] = "approved"
    BY <1>10, <2>1, <2>2 DEF IncidentsArrive
  <2> QED BY <2>4, <2>5, <2>6, <2>7
<1>11. ASSUME NEW c \in checks, ImpactArrives(c) PROVE DisruptInv'
  BY <1>11 DEF ImpactArrives
<1>12. ASSUME NEW i \in Incidents, PressApprove(i) PROVE DisruptInv'
  BY <1>12 DEF PressApprove
<1>13. ASSUME NEW i \in Incidents, IncidentApproved(i) PROVE DisruptInv'
  <2>1. /\ store' \in Lists /\ store'[i] = "approved"
        /\ \A j \in Incidents : store[j] = "approved" => store'[j] = "approved"
    BY <1>13 DEF IncidentApproved, Lists
  <2>2. /\ listed' \in Lists \cup {None}
        /\ listed' # None => \A j \in Incidents : j # i => listed'[j] = listed[j]
        /\ listed' # None => listed # None
    BY <1>13 DEF IncidentApproved, Lists
  <2>3. ListedApprovalIsReal'
    BY <2>1, <2>2
  <2> QED BY <1>13, <2>1, <2>2, <2>3 DEF IncidentApproved
<1>14. ASSUME NEW i \in Incidents, ApprovalFails(i) PROVE DisruptInv'
  <2>1. /\ store' \in Lists
        /\ \A j \in Incidents : store[j] = "approved" => store'[j] = "approved"
    BY <1>14, ApprovalKeeps DEF ApprovalFails
  <2> QED BY <1>14, <2>1 DEF ApprovalFails
<1>15. CASE UNCHANGED disruptVars
  BY <1>15 DEF disruptVars
<1> QED
  BY <1>1, <1>2, <1>3, <1>4, <1>5, <1>6, <1>7, <1>8, <1>9, <1>10, <1>11, <1>12,
     <1>13, <1>14, <1>15 DEF DisruptNext, DrillAnswer, Reloads

\* The desk's state keeps its type (atlas-disruptions.tsx:125-155).
THEOREM DisruptTypeCorrect == DisruptSpec => []DisruptTypeOK
BY DisruptInitInv, DisruptStep, PTL DEF DisruptSpec, DisruptInv

\* No drill without an impact that was shown and confirmed
\* (atlas-disruptions.tsx:208-220, 358-426).
THEOREM DisruptConfirmedOverAnImpact == DisruptSpec => []ConfirmedOverAnImpact
BY DisruptInitInv, DisruptStep, PTL DEF DisruptSpec, DisruptInv

\* What is listed as approved is approved (atlas-disruptions.tsx:157-206).
THEOREM DisruptListedApprovalIsReal == DisruptSpec => []ListedApprovalIsReal
BY DisruptInitInv, DisruptStep, PTL DEF DisruptSpec, DisruptInv
============================================================================
