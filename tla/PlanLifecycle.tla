--------------------------- MODULE PlanLifecycle ---------------------------
(***************************************************************************)
(* The life of a block plan, from the solver that drafts it to the COA     *)
(* acknowledgment and the field: the API sessions, the COA bridge, the     *)
(* Emergency Service and the Celery workers over one database.             *)
(***************************************************************************)
EXTENDS Approvals, PlanRequests, CoaBridge, Emergency, Planner

\* An empty database after the seeders and the first feeds.
Init ==
    /\ plans = [p \in Plans |-> None]
    /\ demand = [d \in Demands |-> "SUBMITTED"]
    /\ acks = [p \in Plans |-> {}]
    /\ outbox = [o \in Rows |-> None]
    /\ keys = [k \in Keys |-> None]
    /\ incidents = [i \in Incidents |-> None]
    /\ runs = [r \in Runs |-> [status |-> "QUEUED", read |-> {}, accepted |-> {}]]
    /\ req = [s \in Sessions |-> None]
    /\ bridge = None
    /\ vetted = {}
    /\ effects = [k \in Keys |-> 0]

DecideRequest(s) ==
    \E d \in Decisions, p \in Plans, u \in Users, k \in Keys : DecideRead(s, d, p, u, k)
AcknowledgeRequest(s) == \E p \in Plans, role \in SignalRole : AcknowledgeRead(s, p, role)
ReviseRequest(s) == \E p \in Plans, from, to \in Times : ReviseRead(s, p, from, to)
TransmitRequest(s) == \E p \in Plans : TransmitRead(s, p)
MoveRequest(s) == \E m \in Moves, p \in Plans : MoveRead(s, m, p)
MoveCommitted(s) == \E m \in Moves : MoveCommit(s, m)
BreakdownRequest(s) ==
    \E sec \in Sections, u \in Users, k \in Keys : BreakdownRead(s, sec, u, k)
BreakdownReplanned(s) ==
    \E i \in Incidents, q \in Plans, c \in Offers : BreakdownCommit(s, i, q, c)
BreakdownUnplanned(s) == \E i \in Incidents : BreakdownWithoutPlan(s, i)

SessionStep(s) ==
    \/ DecideRequest(s) \/ ApproveCommit(s) \/ AuthorizeCommit(s) \/ RejectCommit(s)
    \/ AcknowledgeRequest(s) \/ AcknowledgeCommit(s)
    \/ ReviseRequest(s) \/ ReviseCommit(s)
    \/ TransmitRequest(s) \/ TransmitCommit(s)
    \/ MoveRequest(s) \/ MoveCommitted(s)
    \/ BreakdownRequest(s) \/ BreakdownReplanned(s) \/ BreakdownUnplanned(s)
    \/ Abort(s)

RunStep(r) == SolveStart(r) \/ SolveNothing(r) \/ SolveEscalate(r) \/ SolveCommit(r)

BridgeStep == BridgeRead \/ BridgeRefuse \/ BridgeCommit \/ BridgeAbort

Next ==
    \/ \E s \in Sessions : SessionStep(s)
    \/ \E r \in Runs : RunStep(r)
    \/ \E o \in Rows : Ripen(o)
    \/ \E i \in Incidents : AcknowledgeIncident(i)
    \/ \E d \in Demands : Ingest(d)
    \/ BridgeStep

Spec == Init /\ [][Next]_vars

(***************************************************************************)
(* Time passes, the bridge loop keeps running, and an iteration does not   *)
(* fail for ever: it is retried every two seconds whatever it raised.      *)
(***************************************************************************)
FairSpec ==
    /\ Spec
    /\ \A o \in Rows : WF_vars(Ripen(o))
    /\ WF_vars(BridgeRead)
    /\ SF_vars(BridgeRefuse)
    /\ SF_vars(BridgeCommit)
----------------------------------------------------------------------------
\* Every table, request and history variable has the shape of the schema.
TypeOK ==
    /\ plans \in [Plans -> Plan \cup {None}]
    /\ demand \in [Demands -> DemandStatus]
    /\ acks \in [Plans -> SUBSET SignalRole]
    /\ outbox \in [Rows -> OutboxRow \cup {None}]
    /\ keys \in [Keys -> KeyRow \cup {None}]
    /\ incidents \in [Incidents -> Incident \cup {None}]
    /\ runs \in [Runs -> Run]
    /\ req \in [Sessions -> Request \cup {None}]
    /\ bridge \in Iteration \cup {None}
    /\ vetted \subseteq Content
    /\ effects \in [Keys -> Nat]

SignedByTwo(p) ==
    /\ plans[p].decidedBy # None
    /\ plans[p].authorizedBy # None
    /\ plans[p].decidedBy # plans[p].authorizedBy

Acked(p) == \E o \in Rows : outbox[o] # None /\ outbox[o].plan = p /\ outbox[o].state = "ACKED"

\* The blocks a demand is planned in.
BlocksOf(d) == {p \in Plans : plans[p] # None /\ d \in plans[p].content.demands}

\* Two people stand behind every block that is or was authorised: the Sr. DOM decision
\* and a DRM authorisation by somebody else are on the row (APP-001, R6.3), although
\* `decide` compares the actor with a decided_by it read earlier (approvals.py:78).  The
\* demands, which each handler moves in an UPDATE of its own, do not run ahead of that.
TwoPersonRelease ==
    /\ \A p \in Plans :
         plans[p] # None /\ plans[p].status \in OnLineStatus \cup {"AUTHORIZED_DRM"} => SignedByTwo(p)
    /\ \A d \in Demands :
         demand[d] \in OnLineStatus \cup {"AUTHORIZED_DRM"} => \E p \in BlocksOf(d) : SignedByTwo(p)

\* TRANSMITTED_COA and what follows it are reached on COA's acknowledgment of a queued
\* row of this plan and in no other way (SAFE-006, coa_adapter.py:1-2); no demand is shown
\* on line without a block of its own that COA acknowledged.
OnLineOnlyOnAck ==
    /\ \A p \in Plans : plans[p] # None /\ plans[p].status \in OnLineStatus => Acked(p)
    /\ \A d \in Demands : demand[d] \in OnLineStatus => \E p \in BlocksOf(d) : Acked(p)

\* A draft is never left behind with both acknowledgments in: of two people who
\* acknowledge at the same moment, the second to commit seals it (plans.py:301-321).
DraftAwaitsAcks ==
    \A p \in Plans : plans[p] # None /\ plans[p].status = "DRAFT" => acks[p] # SignalRole

\* The states past the Sentinel.
Past == OnLineStatus \cup {"SENTINEL_PASSED", "APPROVED_SR_DOM", "AUTHORIZED_DRM"}

\* G&SR-2: a block with signalling work is past SENTINEL_PASSED only if a plan with the
\* very same content was acknowledged by a Station Master and a Controller, wherever
\* the acknowledgments were made (validator.py:99-109, plans.py:293-334).
SignalWorkAcknowledged ==
    \A p \in Plans :
        /\ plans[p] # None
        /\ plans[p].content.demands \cap SignalWork # {}
        /\ plans[p].status \in Past
        => \E q \in Plans : /\ plans[q] # None
                            /\ plans[q].content = plans[p].content
                            /\ acks[q] = SignalRole

\* A revision starts with nothing: until both acknowledgments are in it has neither a
\* seal nor a decision of its own, whatever its predecessor had (FR-026).
RevisionStartsAfresh ==
    \A p \in Plans :
        plans[p] # None /\ plans[p].supersedes # None /\ acks[p] # SignalRole
        => plans[p].seal = None /\ plans[p].decidedBy = None /\ plans[p].authorizedBy = None

\* Two ways lead past the Sentinel, the ten checks on a plan of the solver and both
\* acknowledgments of a revision, and a plan that passed carries the seal of its content
\* until somebody revises it: these are the limits of what the bridge transmits without a
\* seal (coa_adapter.py:56-61) and of what is sealed without a check (plans.py:316-321).
PastTheSentinel ==
    \A p \in Plans :
        plans[p] # None /\ plans[p].status \in Past
        => /\ \/ plans[p].incident = None /\ plans[p].content \in vetted
              \/ plans[p].supersedes # None /\ acks[p] = SignalRole
           /\ \/ HashGate(p)
              \/ /\ plans[p].seal = None
                 /\ \E q \in Plans : plans[q] # None /\ plans[q].supersedes = p

\* One key, one effect: a retried or doubled POST commits at most one state change, also
\* when both copies pass check_replay before either commits (idempotency_service.py:1-3).
SingleEffect == \A k \in Keys : effects[k] \in {0, 1}

\* A coalesced incident points at an incident that leads its own re-plan on an adjacent
\* section, never at one that was itself coalesced (emergency_service.py:64-84).
CoalescedIntoRoot ==
    \A i \in Incidents :
        incidents[i] # None /\ incidents[i].into # None
        => /\ incidents[incidents[i].into] # None
           /\ incidents[incidents[i].into].into = None
           /\ incidents[incidents[i].into].section \in AdjacentTo(incidents[i].section)

Provisional(p) == plans[p] # None /\ plans[p].status = "PROVISIONAL"

\* A PROVISIONAL plan belongs to one incident of its own, on that section or on one the
\* incident affects, also when breakdowns of neighbouring sections run at the same time:
\* the Controller who acknowledges an incident acknowledges one plan (ADR-006).
ProvisionalHasItsIncident ==
    \A p \in Plans :
        Provisional(p)
        => /\ plans[p].incident # None
           /\ plans[p].content.section \in Affected(incidents[plans[p].incident].section)
           /\ \A q \in Plans \ {p} : Provisional(q) => plans[q].incident # plans[p].incident

\* The plan of an emergency waits for a revision: it is neither decided, cancelled nor
\* transmitted, although process_outbox (coa_adapter.py:40-44) would let it through.
ReplanWaits ==
    \A p \in Plans :
        plans[p] # None /\ plans[p].incident # None /\ plans[p].supersedes = None
        => plans[p].status \in {"PROVISIONAL", "SUPERSEDED"}

\* The row is acknowledged, the plan becomes TRANSMITTED_COA, in this step.
AckedNow(o) ==
    /\ outbox'[o] # None /\ outbox'[o].state = "ACKED"
    /\ outbox[o] = None \/ outbox[o].state # "ACKED"
TransmittedNow(p) ==
    /\ plans'[p] # None /\ plans'[p].status = "TRANSMITTED_COA"
    /\ plans[p] = None \/ plans[p].status # "TRANSMITTED_COA"

\* One acknowledgment, one transmission: a plan becomes TRANSMITTED_COA in the very step
\* in which exactly one of its waiting rows is acknowledged, also when it is queued
\* twice and both rows are due, and no row is acknowledged otherwise (coa_adapter.py:30-72).
OneAckOneTransmission ==
    [][/\ \A o \in Rows : AckedNow(o) => /\ outbox[o] # None /\ outbox[o].attempts < 3
                                         /\ TransmittedNow(outbox[o].plan)
       /\ \A o, r \in Rows : /\ AckedNow(o) /\ AckedNow(r)
                             /\ outbox[o].plan = outbox[r].plan
                             => o = r
       /\ \A p \in Plans : TransmittedNow(p) => \E o \in Rows : AckedNow(o) /\ outbox[o].plan = p]_vars

\* A revoked block comes back only by a transaction that read it before the revocation:
\* a request in flight, or the row the bridge read first.  The rows that the bridge reads
\* later are read under the ledger lock, and a new request is refused (coa_adapter.py:36-55).
RevivedByStaleReadOnly ==
    [][\A p \in Plans :
         /\ plans[p] # None
         /\ plans[p].status = "SUPERSEDED_EMERGENCY"
         /\ plans'[p].status \in ActiveStatus
         => \/ \E s \in Sessions : /\ Serving(s, "activate") \/ Serving(s, "authorize")
                                  /\ req[s].plan = p
            \/ /\ bridge # None /\ bridge.first # None
               /\ outbox[bridge.first].plan = p]_vars

(***************************************************************************)
(* The chain of milestones, read off the tables.                           *)
(***************************************************************************)
QueuedFor(p) == {o \in Rows : outbox[o] # None /\ outbox[o].plan = p}

Stage(p) ==
    IF plans[p] = None THEN 0
    ELSE IF \E o \in QueuedFor(p) : outbox[o].state = "ACKED" THEN 4
    ELSE IF QueuedFor(p) # {} THEN 3
    ELSE IF plans[p].authorizedBy # None THEN 2
    ELSE IF plans[p].decidedBy # None THEN 1
    ELSE 0

Chain == INSTANCE ReleaseChain WITH
    stage <- [p \in Plans |-> Stage(p)],
    granted <- {p \in Plans : plans[p] # None /\ plans[p].status = "ACTIVE_GRANTED"}

\* Whatever interleaving: the milestones are passed in order and kept, and the line is
\* granted only to a plan that passed all four.
MilestonesInOrder == Chain!Spec

\* A queued row of a plan that stays authorised is answered: the bridge neither forgets
\* a row nor starves one row behind another (coa_adapter.py:30-72).
QueuedIsAnswered ==
    \A o \in Rows :
        (outbox[o] # None /\ outbox[o].state = "PENDING")
        ~> /\ outbox[o] # None
           /\ \/ outbox[o].state = "ACKED"
              \/ outbox[o].attempts = 3
              \/ plans[outbox[o].plan].status # "AUTHORIZED_DRM"
============================================================================
