----------------------------- MODULE Emergency -----------------------------
(***************************************************************************)
(* The Emergency Service (routers/emergency.py and                         *)
(* services/emergency_service.py).  A breakdown reads the incidents and    *)
(* the active plans of the section, then revokes.  The first revocation    *)
(* appends to the ledger and so holds its lock through the whole solve:    *)
(* every other transaction that changes state waits for the same lock, so  *)
(* all that follows that append is one step.                               *)
(***************************************************************************)
EXTENDS PlanStore

\* adjacent_section_ids, and the affected sections of blast_radius
AdjacentTo(sec) == {t \in Sections : t # sec /\ (<<sec, t>> \in Adjacent \/ <<t, sec>> \in Adjacent)}
Affected(sec) == {sec} \cup AdjacentTo(sec)

\* MUTANT of Roots: coalesced incidents are not filtered out.
AnyIncident(sec) == {i \in Incidents : incidents[i] # None /\ incidents[i].section \in AdjacentTo(sec)}

\* The incidents a new one on this section may be coalesced into.  The 60-minute window
\* is longer than a run; which of several is the latest is left open.
Roots(sec) == {i \in Incidents : /\ incidents[i] # None
                                 /\ incidents[i].section \in AdjacentTo(sec)
                                 /\ incidents[i].into = None}

OnSection(sec, st) == {p \in Plans : /\ plans[p] # None
                                     /\ plans[p].content.section = sec
                                     /\ plans[p].status \in st}

\* The reads: replay, a block to supersede, the incident to coalesce into (a SELECT,
\* the INSERT comes later), and the plans to revoke.
BreakdownRead(s, sec, u, k) ==
    /\ "breakdown" \in Handlers
    /\ Idle(s)
    /\ NotReplayed(k, "/emergency/breakdown", u)
    /\ OnSection(sec, ActiveStatus \cup {"SENTINEL_PASSED", "APPROVED_SR_DOM"}) # {}
    /\ \E into \in IF Roots(sec) = {} THEN {None} ELSE Roots(sec) :
         Begin(s, [op |-> "breakdown", section |-> sec, into |-> into,
                   targets |-> OnSection(sec, ActiveStatus), actor |-> u, key |-> k])
    /\ UNCHANGED <<tables, bridge>>

\* issue_advisory_revocation: every plan read as active is superseded, and its demands
\* return to SUBMITTED unless they are already ACTIVE_GRANTED or later.
Revoked(targets) ==
    [p \in Plans |-> IF p \in targets THEN [plans[p] EXCEPT !.status = "SUPERSEDED_EMERGENCY"]
                     ELSE plans[p]]
Released(targets) ==
    MoveDemands(demand, UNION {plans[p].content.demands : p \in targets},
                {"SCHEDULED_DRAFT", "SENTINEL_PASSED", "APPROVED_SR_DOM",
                 "AUTHORIZED_DRM", "TRANSMITTED_COA"}, "SUBMITTED")

LogIncident(s, i) ==
    /\ incidents[i] = None
    /\ incidents' = [incidents EXCEPT ![i] = [section |-> req[s].section, into |-> req[s].into,
                                              acked |-> FALSE]]
    /\ RecordKey(req[s].key, "/emergency/breakdown", req[s].actor)
    /\ Finish(s)
    /\ UNCHANGED <<acks, outbox, runs, bridge, vetted>>

\* No candidate, or one that fails the structural subset: the revocation stands and no
\* plan replaces what it displaced.
BreakdownWithoutPlan(s, i) ==
    /\ Serving(s, "breakdown")
    /\ plans' = Revoked(req[s].targets)
    /\ demand' = Released(req[s].targets)
    /\ Admissible(plans')
    /\ LogIncident(s, i)

\* MUTANT of BreakdownCommit: the plan of a coalesced incident is filed under the
\* incident that it was coalesced into.
BreakdownFiledUnderRoot(s, i, q, c) ==
    /\ Serving(s, "breakdown")
    /\ c.section \in Affected(req[s].section)
    /\ \A d \in c.demands : Released(req[s].targets)[d] \in {"SUBMITTED", "NORMALIZED", "ESCALATED_OVERDUE"}
    /\ plans[q] = None
    /\ plans' = [Revoked(req[s].targets) EXCEPT ![q] =
                   NewPlan(c, "PROVISIONAL", c, None, IF req[s].into = None THEN i ELSE req[s].into)]
    /\ demand' = MoveDemands(Released(req[s].targets), c.demands, DemandStatus, "SCHEDULED_DRAFT")
    /\ Admissible(plans')
    /\ LogIncident(s, i)

\* persist_emergency_plan: the one candidate kept is sealed and PROVISIONAL.  The solver
\* draws on all demands of the affected sections that wait, those just released included.
BreakdownCommit(s, i, q, c) ==
    /\ Serving(s, "breakdown")
    /\ c.section \in Affected(req[s].section)
    /\ \A d \in c.demands : Released(req[s].targets)[d] \in {"SUBMITTED", "NORMALIZED", "ESCALATED_OVERDUE"}
    /\ plans[q] = None
    /\ plans' = [Revoked(req[s].targets) EXCEPT ![q] = NewPlan(c, "PROVISIONAL", c, None, i)]
    /\ demand' = MoveDemands(Released(req[s].targets), c.demands, DemandStatus, "SCHEDULED_DRAFT")
    /\ Admissible(plans')
    /\ LogIncident(s, i)

\* acknowledge_incident.  One step: the flag is only ever set, so a second request that
\* read it unset changes nothing the model keeps.
AcknowledgeIncident(i) ==
    /\ "acknowledge-incident" \in Handlers
    /\ incidents[i] # None
    /\ ~incidents[i].acked
    /\ incidents' = [incidents EXCEPT ![i].acked = TRUE]
    /\ UNCHANGED <<plans, demand, acks, outbox, keys, runs, req, bridge, vetted, effects>>
============================================================================
