---------------------------- MODULE PlanRequests ----------------------------
(***************************************************************************)
(* The plan endpoints that change state (apps/api/routers/plans.py):       *)
(* signal acknowledgment, revision, transmission to COA, and the four      *)
(* moves of _transition.                                                   *)
(***************************************************************************)
EXTENDS PlanStore

AcknowledgeRead(s, p, role) ==
    /\ "acknowledge-signal" \in Handlers
    /\ Idle(s)
    /\ plans[p] # None
    /\ Begin(s, [op |-> "acknowledge-signal", plan |-> p, role |-> role,
                 draft |-> plans[p].status = "DRAFT"])
    /\ UNCHANGED <<tables, bridge>>

\* MUTANT of BothAcked: the handler judges by the rows it saw before its own upsert.
BothAckedBefore(p, role) == acks[p] = SignalRole

\* MUTANT of BothAcked: one acknowledgment is enough.
EitherAcked(p, role) == TRUE

\* The row as re-read after the upsert: uq_sigack_plan makes competing upserts of
\* one plan wait for each other, so the acknowledgment committed first is seen.
BothAcked(p, role) == acks[p] \cup {role} = SignalRole

\* INSERT ... ON CONFLICT DO NOTHING and UPDATE ... WHERE acked_at IS NULL, then,
\* if both roles are in and the row read was a DRAFT, the plan is sealed.  The UPDATE
\* of the plan repeats the DRAFT test, the one of the demands does not.  The Sentinel
\* is not run: the hash it would have sealed is recomputed from the row.
AcknowledgeCommit(s) ==
    /\ Serving(s, "acknowledge-signal")
    /\ LET p == req[s].plan
           passes == req[s].draft /\ BothAcked(p, req[s].role)
       IN /\ acks' = [acks EXCEPT ![p] = @ \cup {req[s].role}]
          /\ plans' = IF passes /\ plans[p].status = "DRAFT"
                      THEN [plans EXCEPT ![p].status = "SENTINEL_PASSED",
                                         ![p].seal = plans[p].content]
                      ELSE plans
          /\ demand' = IF passes
                       THEN MoveDemands(demand, plans[p].content.demands,
                                        {"SCHEDULED_DRAFT", "SUBMITTED", "NORMALIZED"},
                                        "SENTINEL_PASSED")
                       ELSE demand
    /\ Finish(s)
    /\ UNCHANGED <<outbox, keys, incidents, runs, bridge, vetted, effects>>
----------------------------------------------------------------------------
\* revise refuses a plan that was transmitted, and a window that does not end
\* after it starts; it refuses no other state.
ReviseRead(s, p, from, to) ==
    /\ "revise" \in Handlers
    /\ Idle(s)
    /\ plans[p] # None
    /\ plans[p].status \notin OnLineStatus
    /\ from < to
    /\ Begin(s, [op |-> "revise", plan |-> p, start |-> from, end |-> to])
    /\ UNCHANGED <<tables, bridge>>

\* MUTANT of Revision: the Sentinel verdict travels to the new revision.
RevisionKeepsSeal(p, from, to) ==
    NewPlan([plans[p].content EXCEPT !.start = from, !.end = to],
            "SENTINEL_PASSED", plans[p].seal, p, plans[p].incident)

\* MUTANT of Revision: the approvals travel to the new revision.
RevisionKeepsApprovals(p, from, to) ==
    [NewPlan([plans[p].content EXCEPT !.start = from, !.end = to],
             "DRAFT", None, p, plans[p].incident)
     EXCEPT !.decidedBy = plans[p].decidedBy, !.authorizedBy = plans[p].authorizedBy]

Revision(p, from, to) ==
    NewPlan([plans[p].content EXCEPT !.start = from, !.end = to],
            "DRAFT", None, p, plans[p].incident)

\* revise_plan: a new row at DRAFT, the old one SUPERSEDED without its seal, and all
\* the demands back to SCHEDULED_DRAFT whatever they were.
ReviseCommit(s) ==
    /\ Serving(s, "revise")
    /\ LET p == req[s].plan IN
       \E q \in UnusedPlans :
         /\ plans' = [plans EXCEPT ![q] = Revision(p, req[s].start, req[s].end),
                                   ![p].status = "SUPERSEDED", ![p].seal = None]
         /\ demand' = MoveDemands(demand, plans[p].content.demands,
                                  DemandStatus, "SCHEDULED_DRAFT")
    /\ Finish(s)
    /\ UNCHANGED <<acks, outbox, keys, incidents, runs, bridge, vetted, effects>>
----------------------------------------------------------------------------
\* check_no_active_overlap
NoActiveOverlap(p) ==
    \A q \in Plans \ {p} :
        plans[q] # None /\ plans[q].status \in ActiveStatus
        => ~Overlap(plans[q].content, plans[p].content)

\* MUTANT of TransmitRead: the plan of an emergency may be queued as it is.
TransmitReadProvisional(s, p) ==
    /\ "transmit" \in Handlers
    /\ Idle(s)
    /\ plans[p] # None
    /\ plans[p].status \in {"AUTHORIZED_DRM", "PROVISIONAL"}
    /\ HashGate(p)
    /\ NoActiveOverlap(p)
    /\ Begin(s, [op |-> "transmit", plan |-> p])
    /\ UNCHANGED <<tables, bridge>>

\* The structural subset of the Sentinel is run against the trains of the moment; a
\* plan it refuses leaves no trace, so the action stands for the plans it lets through.
TransmitRead(s, p) ==
    /\ "transmit" \in Handlers
    /\ Idle(s)
    /\ plans[p] # None
    /\ plans[p].status = "AUTHORIZED_DRM"
    /\ HashGate(p)
    /\ NoActiveOverlap(p)
    /\ Begin(s, [op |-> "transmit", plan |-> p])
    /\ UNCHANGED <<tables, bridge>>

\* MUTANT of TransmitCommit: TRANSMITTED_COA on send instead of on acknowledgment.
TransmitOnSend(s) ==
    /\ Serving(s, "transmit")
    /\ \E o \in Rows :
         /\ outbox[o] = None
         /\ outbox' = [outbox EXCEPT ![o] = [plan |-> req[s].plan, state |-> "PENDING",
                                             attempts |-> 0, due |-> FALSE]]
    /\ plans' = [plans EXCEPT ![req[s].plan].status = "TRANSMITTED_COA"]
    /\ Finish(s)
    /\ UNCHANGED <<demand, acks, keys, incidents, runs, bridge, vetted, effects>>

\* enqueue_transmission: the plan keeps its status.  Nothing keeps a second request
\* from queueing the same plan again.
TransmitCommit(s) ==
    /\ Serving(s, "transmit")
    /\ \E o \in Rows :
         /\ outbox[o] = None
         /\ outbox' = [outbox EXCEPT ![o] = [plan |-> req[s].plan, state |-> "PENDING",
                                             attempts |-> 0, due |-> FALSE]]
    /\ Finish(s)
    /\ UNCHANGED <<plans, demand, acks, keys, incidents, runs, bridge, vetted, effects>>
----------------------------------------------------------------------------
\* The from_states and to_state that the four endpoints hand to _transition.
Moves == {[op |-> "activate", from |-> {"TRANSMITTED_COA"}, to |-> "ACTIVE_GRANTED"],
          [op |-> "complete", from |-> {"ACTIVE_GRANTED"}, to |-> "COMPLETED_FITNESS"],
          [op |-> "archive",  from |-> {"COMPLETED_FITNESS"}, to |-> "ARCHIVED_SEALED"],
          [op |-> "cancel",   from |-> {"DRAFT", "SENTINEL_PASSED", "APPROVED_SR_DOM",
                                        "AUTHORIZED_DRM"}, to |-> "CANCELLED"]}

\* MUTANT of MoveRead: the status of the plan is not looked at.
MoveReadAny(s, m, p) ==
    /\ m.op \in Handlers
    /\ Idle(s)
    /\ plans[p] # None
    /\ Begin(s, [op |-> m.op, plan |-> p])
    /\ UNCHANGED <<tables, bridge>>

MoveRead(s, m, p) ==
    /\ m.op \in Handlers
    /\ Idle(s)
    /\ plans[p] # None
    /\ plans[p].status \in m.from
    /\ Begin(s, [op |-> m.op, plan |-> p])
    /\ UNCHANGED <<tables, bridge>>

\* Both UPDATEs are unconditional in the plan's status; the demands follow the plan
\* unless they are CANCELLED.
MoveCommit(s, m) ==
    /\ Serving(s, m.op)
    /\ LET p == req[s].plan IN
       /\ plans' = [plans EXCEPT ![p].status = m.to]
       /\ demand' = MoveDemands(demand, plans[p].content.demands,
                                DemandStatus \ {"CANCELLED"}, m.to)
    /\ Admissible(plans')
    /\ Finish(s)
    /\ UNCHANGED <<acks, outbox, keys, incidents, runs, bridge, vetted, effects>>
============================================================================
