------------------------------ MODULE Planner ------------------------------
(***************************************************************************)
(* Where plans and demands come from: the Celery task run_solve            *)
(* (apps/workers/tasks.py) in its two transactions, with the solve between *)
(* them, and the machine feeds of POST /demands/ingest                     *)
(* (routers/demands.py).  What Optima proposes is the constant Offers; a   *)
(* run that dies between its transactions stays RUNNING.                   *)
(***************************************************************************)
EXTENDS PlanStore

CONSTANT Offers     \* the candidates that Optima may build

ASSUME OffersAssumption == Offers \subseteq Content

\* "SIGNAL_TELECOM" in plan.departments
NeedsAck(c) == c.demands \cap SignalWork # {}

\* build_ack_lookup: the acknowledgment rows of the plans with this content hash; of
\* several, the last one of an unordered SELECT wins.
AckRecords(c) == {acks[p] : p \in {q \in Plans : plans[q] # None /\ plans[q].content = c /\ acks[q] # {}}}

\* Whether all ten checks pass, for a candidate that fails none but G&SR-2.
Verdicts(c) ==
    IF ~NeedsAck(c) THEN {TRUE}
    ELSE IF AckRecords(c) = {} THEN {FALSE}
    ELSE {a = SignalRole : a \in AckRecords(c)}

\* validate_set lets through candidates whose works are distinct and that do not overlap
\* on a section; a candidate may overlap a plan that is already committed.
Acceptable(cs) ==
    \A c, e \in cs : c # e => ~Overlap(c, e) /\ c.demands \cap e.demands = {}

\* The first transaction and the attempts that follow it.  Which waiting demands are
\* read depends on freshness, horizon and weather: any set of them.
SolveStart(r) ==
    /\ "solve" \in Handlers
    /\ runs[r].status = "QUEUED"
    /\ \E ds \in SUBSET {d \in Demands : demand[d] \in {"SUBMITTED", "NORMALIZED"}} :
         \E cs \in SUBSET {c \in Offers : c.demands \subseteq ds} :
         \E verdict \in [cs -> BOOLEAN] :
           /\ ds # {}
           /\ Acceptable(cs)
           /\ \A c \in cs : verdict[c] \in Verdicts(c)
           /\ runs' = [runs EXCEPT ![r] =
                [status |-> "RUNNING", read |-> ds,
                 accepted |-> {[content |-> c, passed |-> verdict[c]] : c \in cs}]]
    /\ UNCHANGED <<plans, demand, acks, outbox, keys, incidents, req, bridge, vetted, effects>>

\* Nothing eligible: a run that completes without a plan.
SolveNothing(r) ==
    /\ "solve" \in Handlers
    /\ runs[r].status = "QUEUED"
    /\ runs' = [runs EXCEPT ![r].status = "COMPLETED"]
    /\ UNCHANGED <<plans, demand, acks, outbox, keys, incidents, req, bridge, vetted, effects>>

\* FAILED_ESCALATE_HUMAN: the demands that still wait are handed to a person.
SolveEscalate(r) ==
    /\ runs[r].status = "RUNNING"
    /\ runs[r].accepted = {}
    /\ demand' = MoveDemands(demand, runs[r].read, {"SUBMITTED", "NORMALIZED"}, "ESCALATED_OVERDUE")
    /\ runs' = [runs EXCEPT ![r].status = "FAILED"]
    /\ UNCHANGED <<plans, acks, outbox, keys, incidents, req, bridge, vetted, effects>>

\* A plan per candidate, sealed when every check passed; the demands get the status of
\* their plan, whatever happened to them during the solve.
SolveCommit(r) ==
    /\ runs[r].status = "RUNNING"
    /\ runs[r].accepted # {}
    /\ LET cands == runs[r].accepted
           Chosen(passed) == UNION {c.content.demands : c \in {a \in cands : a.passed = passed}}
           Born(c) == NewPlan(c.content, IF c.passed THEN "SENTINEL_PASSED" ELSE "DRAFT",
                              IF c.passed THEN c.content ELSE None, None, None)
       IN /\ \E new \in SUBSET UnusedPlans : \E of \in [new -> cands] :
               /\ \A c \in cands : \E q \in new : of[q] = c
               /\ Cardinality(new) = Cardinality(cands)
               /\ plans' = [p \in Plans |-> IF p \in new THEN Born(of[p]) ELSE plans[p]]
          /\ demand' = [d \in Demands |-> IF d \in Chosen(TRUE) THEN "SENTINEL_PASSED"
                                          ELSE IF d \in Chosen(FALSE) THEN "SCHEDULED_DRAFT"
                                          ELSE demand[d]]
          /\ vetted' = vetted \cup {c.content : c \in cands}
    /\ runs' = [runs EXCEPT ![r].status = "COMPLETED"]
    /\ UNCHANGED <<acks, outbox, keys, incidents, req, bridge, effects>>

\* A feed reports the demand again: the upsert puts it back to SUBMITTED from any state.
Ingest(d) ==
    /\ "ingest" \in Handlers
    /\ demand' = [demand EXCEPT ![d] = "SUBMITTED"]
    /\ UNCHANGED <<plans, acks, outbox, keys, incidents, runs, req, bridge, vetted, effects>>
============================================================================
