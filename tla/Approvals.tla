----------------------------- MODULE Approvals -----------------------------
(***************************************************************************)
(* POST /approvals/decide (apps/api/routers/approvals.py): the Sr. DOM     *)
(* approves, the DRM authorises, either of them rejects.                   *)
(***************************************************************************)
EXTENDS PlanStore

\* The branches of the handler: `approve` is APPROVE by an actor in the SR_DOM role,
\* `authorize` APPROVE by one in the DRM role.  A user may hold a token of either role.
Decisions == {[op |-> "approve",   from |-> {"SENTINEL_PASSED"}],
              [op |-> "authorize", from |-> {"APPROVED_SR_DOM"}],
              [op |-> "reject",    from |-> {"SENTINEL_PASSED", "APPROVED_SR_DOM",
                                             "AUTHORIZED_DRM"}]}

\* The checks of the handler, all on the row that load_plan returned.
DecideRead(s, d, p, u, k) ==
    /\ d.op \in Handlers
    /\ Idle(s)
    /\ NotReplayed(k, "/approvals/decide", u)
    /\ plans[p] # None
    /\ plans[p].status # "SUPERSEDED"
    /\ HashGate(p)
    /\ plans[p].status \in d.from
    /\ d.op = "authorize" => plans[p].decidedBy # u
    /\ Begin(s, [op |-> d.op, plan |-> p, actor |-> u, key |-> k])
    /\ UNCHANGED <<tables, bridge>>

Decided(s) ==
    /\ Admissible(plans')
    /\ RecordKey(req[s].key, "/approvals/decide", req[s].actor)
    /\ Finish(s)
    /\ UNCHANGED <<acks, outbox, incidents, runs, bridge, vetted>>

\* UPDATE ... SET decided_by WHERE id, whatever the row's status has become.
ApproveCommit(s) ==
    /\ Serving(s, "approve")
    /\ LET p == req[s].plan IN
       /\ plans' = [plans EXCEPT ![p].status = "APPROVED_SR_DOM", ![p].decidedBy = req[s].actor]
       /\ demand' = MoveDemands(demand, plans[p].content.demands,
                                {"SENTINEL_PASSED"}, "APPROVED_SR_DOM")
    /\ Decided(s)

AuthorizeCommit(s) ==
    /\ Serving(s, "authorize")
    /\ LET p == req[s].plan IN
       /\ plans' = [plans EXCEPT ![p].status = "AUTHORIZED_DRM", ![p].authorizedBy = req[s].actor]
       /\ demand' = MoveDemands(demand, plans[p].content.demands,
                                {"APPROVED_SR_DOM"}, "AUTHORIZED_DRM")
    /\ Decided(s)

RejectCommit(s) ==
    /\ Serving(s, "reject")
    /\ LET p == req[s].plan IN
       /\ plans' = [plans EXCEPT ![p].status = "CANCELLED"]
       /\ demand' = MoveDemands(demand, plans[p].content.demands,
                                DemandStatus \ {"ARCHIVED_SEALED"}, "CANCELLED")
    /\ Decided(s)
============================================================================
