----------------------------- MODULE PlanStore -----------------------------
(***************************************************************************)
(* The PostgreSQL tables that the block-plan life cycle lives in           *)
(* (data/sql/02_schema_ddl.sql), the constraints the database enforces on  *)
(* them at every commit, and the requests that are in flight over them.    *)
(*                                                                         *)
(* Every handler of the API runs one READ COMMITTED transaction: it reads  *)
(* the plan with a plain SELECT (services/plan_lifecycle.py, load_plan),   *)
(* decides on the row it read, and later writes by primary key.  Nothing   *)
(* ties the write to the value that was read.  A handler is therefore two  *)
(* actions, a Read that evaluates its early returns and leaves what it     *)
(* remembers in `req`, and a commit that makes its writes visible at once; *)
(* other transactions may commit in between.                               *)
(***************************************************************************)
EXTENDS Naturals, FiniteSets

CONSTANTS
    Plans,      \* identifiers of rows of optimization.block_plans
    Demands,    \* rows of demands.block_demands
    Sections,   \* rows of infrastructure.block_sections
    Times,      \* the instants at which a block may start or end
    Users,      \* actor.username of the people who decide
    Keys,       \* idempotency keys the clients send
    Rows,       \* identifiers of rows of optimization.coa_outbox
    Incidents,  \* identifiers of rows of operations.incidents
    Runs,       \* rows of optimization.solver_runs
    Sessions,   \* database sessions open at once, one request each
    Handlers,   \* the endpoints that the clients of a run call
    SignalWork, \* the SIGNAL_TELECOM demands, which need G&SR-2 acknowledgments
    Adjacent,   \* pairs of sections that touch or share an OHE feeding section
    None        \* SQL NULL, an unused identifier, an idle session

VARIABLES
    plans,      \* optimization.block_plans with its plan_shadow_demands
    demand,     \* demands.block_demands.status
    acks,       \* operations.signal_acknowledgments: the roles recorded per plan
    outbox,     \* optimization.coa_outbox
    keys,       \* audit.idempotency_keys
    incidents,  \* operations.incidents
    runs,       \* optimization.solver_runs and what its worker holds in memory
    req,        \* the request each session is serving, None when idle
    bridge,     \* the iteration of the COA bridge in flight, None between two
    vetted,     \* history: contents the ten Sentinel checks were run on
    effects     \* history: committed state changes per idempotency key

tables == <<plans, demand, acks, outbox, keys, incidents, runs, vetted, effects>>
vars == <<plans, demand, acks, outbox, keys, incidents, runs, req, bridge, vetted, effects>>
----------------------------------------------------------------------------
PlanStatus == {"DRAFT", "SENTINEL_PASSED", "APPROVED_SR_DOM", "AUTHORIZED_DRM",
               "TRANSMITTED_COA", "ACTIVE_GRANTED", "COMPLETED_FITNESS",
               "ARCHIVED_SEALED", "SUPERSEDED", "SUPERSEDED_EMERGENCY",
               "CANCELLED", "FAILED_ESCALATE", "PROVISIONAL"}

DemandStatus == {"SUBMITTED", "NORMALIZED", "SCHEDULED_DRAFT", "SENTINEL_PASSED",
                 "APPROVED_SR_DOM", "AUTHORIZED_DRM", "TRANSMITTED_COA",
                 "ACTIVE_GRANTED", "COMPLETED_FITNESS", "ARCHIVED_SEALED",
                 "CANCELLED", "ESCALATED_OVERDUE"}

\* The states excl_active_overlap, the overlap check and the revocation range over.
ActiveStatus == {"AUTHORIZED_DRM", "TRANSMITTED_COA", "ACTIVE_GRANTED"}

\* The states a block is in from the COA acknowledgment on.
OnLineStatus == {"TRANSMITTED_COA", "ACTIVE_GRANTED", "COMPLETED_FITNESS", "ARCHIVED_SEALED"}

\* What content_hash digests: section, window, primary and shadow demands.  The
\* columns are written by INSERT alone, so a row's content_hash stays the hash of
\* its content, and the hash is taken to be injective: the content stands for it.
Content == [section: Sections, start: Times, end: Times, demands: SUBSET Demands]

Plan == [content: Content, status: PlanStatus, seal: Content \cup {None},
         decidedBy: Users \cup {None}, authorizedBy: Users \cup {None},
         supersedes: Plans \cup {None}, incident: Incidents \cup {None}]

SignalRole == {"STATION_MASTER", "CONTROLLER"}

OutboxRow == [plan: Plans, state: {"PENDING", "ACKED", "FAILED"}, attempts: 0..3, due: BOOLEAN]

Endpoint == {"/approvals/decide", "/emergency/breakdown"}
KeyRow == [endpoint: Endpoint, actor: Users]

Incident == [section: Sections, into: Incidents \cup {None}, acked: BOOLEAN]

\* accepted: the candidates that validate_set let through, each with its verdict;
\* empty when no attempt produced an acceptable set.
Run == [status: {"QUEUED", "RUNNING", "COMPLETED", "FAILED"},
        read: SUBSET Demands,
        accepted: SUBSET [content: Content, passed: BOOLEAN]]

Request ==
         [op: {"approve", "authorize", "reject"}, plan: Plans, actor: Users, key: Keys]
    \cup [op: {"acknowledge-signal"}, plan: Plans, role: SignalRole, draft: BOOLEAN]
    \cup [op: {"revise"}, plan: Plans, start: Times, end: Times]
    \cup [op: {"transmit"}, plan: Plans]
    \cup [op: {"activate", "complete", "archive", "cancel"}, plan: Plans]
    \cup [op: {"breakdown"}, section: Sections, into: Incidents \cup {None},
          targets: SUBSET Plans, actor: Users, key: Keys]

\* An iteration of process_outbox: the rows it refused before the first row it
\* allows, that row, and the rows it will read once it holds the ledger lock.
Iteration == [refused: SUBSET Rows, first: Rows \cup {None}, rest: SUBSET Rows]

(***************************************************************************)
(* None is a value of its own, instants are natural numbers and the        *)
(* adjacency is a relation between sections.                               *)
(***************************************************************************)
ASSUME StoreAssumption ==
    /\ Times \subseteq Nat
    /\ SignalWork \subseteq Demands
    /\ Adjacent \subseteq Sections \X Sections
    /\ None \notin Plans \cup Users \cup Rows \cup Incidents
    /\ None \notin Content /\ None \notin Plan /\ None \notin OutboxRow /\ None \notin KeyRow
    /\ None \notin Incident /\ None \notin Request /\ None \notin Iteration
----------------------------------------------------------------------------
Overlap(c, e) ==
    /\ c.section = e.section
    /\ c.start < e.end
    /\ e.start < c.end

\* MUTANT of DistinctApprovers: chk_distinct_approvers left out of the schema.
NoDistinctCheck(row) == TRUE

\* chk_distinct_approvers
DistinctApprovers(row) ==
    \/ row.authorizedBy = None
    \/ row.decidedBy = None
    \/ row.decidedBy # row.authorizedBy

\* chk_distinct_approvers on every row and excl_active_overlap on every pair: a
\* transaction whose writes break one of them raises and is rolled back.
Admissible(table) ==
    /\ \A p \in Plans : table[p] # None => DistinctApprovers(table[p])
    /\ \A p, q \in Plans :
         /\ table[p] # None /\ table[q] # None /\ p # q
         /\ table[p].status \in ActiveStatus /\ table[q].status \in ActiveStatus
         => ~Overlap(table[p].content, table[q].content)

\* The row every INSERT INTO block_plans writes: nobody has decided on it yet.
NewPlan(c, st, seal, old, inc) ==
    [content |-> c, status |-> st, seal |-> seal, decidedBy |-> None,
     authorizedBy |-> None, supersedes |-> old, incident |-> inc]

\* recompute_hash against content_hash and sentinel_hash (R6.2, SAFE-002)
HashGate(p) == plans[p].seal = plans[p].content

\* UPDATE demands.block_demands SET status = to WHERE id IN ds AND status IN from.
\* The WHERE clause is evaluated on the row as it is when the row lock is granted.
MoveDemands(table, ds, from, to) ==
    [d \in Demands |-> IF d \in ds /\ table[d] \in from THEN to ELSE table[d]]

UnusedPlans == {p \in Plans : plans[p] = None}

\* check_replay finds nothing: this actor has not used the key on this endpoint.
NotReplayed(k, endpoint, actor) == keys[k] # [endpoint |-> endpoint, actor |-> actor]

\* MUTANT of RecordKey: an upsert in place of the INSERT, so that a second
\* transaction with the same key goes through.
RecordKeyTwice(k, endpoint, actor) ==
    /\ keys' = [keys EXCEPT ![k] = [endpoint |-> endpoint, actor |-> actor]]
    /\ effects' = [effects EXCEPT ![k] = @ + 1]

\* record: the key is the PRIMARY KEY of idempotency_keys, so the INSERT raises,
\* and the whole transaction with it, when another transaction committed the key.
RecordKey(k, endpoint, actor) ==
    /\ keys[k] = None
    /\ keys' = [keys EXCEPT ![k] = [endpoint |-> endpoint, actor |-> actor]]
    /\ effects' = [effects EXCEPT ![k] = @ + 1]

Idle(s) == req[s] = None
Serving(s, op) == req[s] # None /\ req[s].op = op
Begin(s, r) == req' = [req EXCEPT ![s] = r]
Finish(s) == req' = [req EXCEPT ![s] = None]

(***************************************************************************)
(* A request ends without an effect: its transaction violates a constraint,*)
(* is chosen as a deadlock victim, or its connection or process dies.      *)
(* What it wrote is rolled back and it is not retried.                     *)
(***************************************************************************)
Abort(s) ==
    /\ ~Idle(s)
    /\ Finish(s)
    /\ UNCHANGED <<tables, bridge>>
============================================================================
