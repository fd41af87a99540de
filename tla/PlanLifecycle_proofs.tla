------------------------ MODULE PlanLifecycle_proofs ------------------------
(***************************************************************************)
(* For any number of plans, people, sessions, keys, rows, incidents and    *)
(* runs: the tables keep their shape, two different people stand behind    *)
(* every released block, a block is on line only on an acknowledgment, and *)
(* the life of a plan implements the release chain.                        *)
(*                                                                         *)
(* A handler writes by primary key whatever the row has become since it    *)
(* was read, so the status it read proves nothing at its commit.  What     *)
(* survives any interleaving is what no action takes back: a decision, an  *)
(* authorisation, a queued row, an acknowledgment (Kept, RowsKept).  The   *)
(* requests in flight carry these facts from their Read to their commit    *)
(* (Vouched), and CHECK chk_distinct_approvers holds the two people apart. *)
(* The first part shows that invariant; the second says what a step does   *)
(* to one row (RowSteps, TableSteps, DemandSteps) and takes each other     *)
(* property from it, with the strengthening that property needs.  What a   *)
(* plan carries past the Sentinel is one lemma for two properties          *)
(* (CarriedStep).                                                          *)
(***************************************************************************)
EXTENDS PlanLifecycle, TLAPS

Signed(p) == plans[p].decidedBy # None /\ plans[p].authorizedBy # None

\* What the status of a plan says about its signatures and its acknowledgment.
Backed ==
    \A p \in Plans :
        plans[p] # None =>
        /\ DistinctApprovers(plans[p])
        /\ plans[p].status = "APPROVED_SR_DOM" => plans[p].decidedBy # None
        /\ plans[p].status \in OnLineStatus \cup {"AUTHORIZED_DRM"} => Signed(p)
        /\ plans[p].status \in OnLineStatus => Acked(p)

PlanOps == {"approve", "authorize", "reject", "acknowledge-signal", "revise", "transmit",
            "activate", "complete", "archive", "cancel"}

\* What a request in flight may rely on at its commit.
VouchedReq(r) ==
    /\ r.op \in PlanOps => plans[r.plan] # None
    /\ r.op \in {"approve", "authorize", "reject", "transmit", "activate", "complete", "archive", "cancel"}
       => plans[r.plan].status # "PROVISIONAL"
    /\ r.op = "authorize" => plans[r.plan].decidedBy # None
    /\ r.op \in {"transmit", "activate", "complete", "archive"} => Signed(r.plan)
    /\ r.op \in {"activate", "complete", "archive"} => Acked(r.plan)
    /\ r.op = "breakdown" => \A p \in r.targets : plans[p] # None /\ plans[p].status # "PROVISIONAL"

Vouched == \A s \in Sessions : req[s] # None => VouchedReq(req[s])

\* Only signed plans are queued, and the emergency plan never is.
Queued ==
    \A o \in Rows :
        outbox[o] # None =>
        /\ plans[outbox[o].plan] # None
        /\ plans[outbox[o].plan].status # "PROVISIONAL"
        /\ Signed(outbox[o].plan)

\* The rows an iteration of the bridge works on are still waiting.
Waiting(o) == outbox[o] # None /\ outbox[o].state = "PENDING" /\ outbox[o].attempts < 3

InHand ==
    bridge # None =>
        /\ \A o \in bridge.refused \cup bridge.rest : Waiting(o)
        /\ bridge.first # None => Waiting(bridge.first)

IInv == TypeOK /\ Backed /\ Vouched /\ Queued /\ InHand
----------------------------------------------------------------------------
(***************************************************************************)
(* What no action takes back.                                              *)
(***************************************************************************)
Kept ==
    \A p \in Plans :
        plans[p] # None =>
        /\ plans'[p] # None
        /\ plans[p].decidedBy # None => plans'[p].decidedBy # None
        /\ plans[p].authorizedBy # None => plans'[p].authorizedBy # None
        /\ plans[p].status # "PROVISIONAL" => plans'[p].status # "PROVISIONAL"

RowsKept ==
    \A o \in Rows :
        outbox[o] # None =>
        /\ outbox'[o] # None
        /\ outbox'[o].plan = outbox[o].plan
        /\ outbox[o].state = "ACKED" => outbox'[o].state = "ACKED"

\* The fields of a request in flight.
LEMMA ReqFields ==
    ASSUME TypeOK, NEW s \in Sessions, req[s] # None
    PROVE  /\ req[s] \in Request
           /\ req[s].op \in PlanOps => req[s].plan \in Plans
           /\ req[s].op \in {"approve", "authorize", "reject", "breakdown"}
              => req[s].actor \in Users /\ req[s].key \in Keys
           /\ req[s].op = "acknowledge-signal" => req[s].role \in SignalRole
           /\ req[s].op = "revise" => req[s].start \in Times /\ req[s].end \in Times
           /\ req[s].op = "breakdown"
              => /\ req[s].section \in Sections
                 /\ req[s].into \in Incidents \cup {None}
                 /\ req[s].targets \subseteq Plans
<1>1. req[s] \in Request
    BY DEF TypeOK
<1> QED
    BY <1>1 DEF Request, PlanOps

\* MoveDemands keeps the shape of the demand table.
LEMMA MoveType ==
    ASSUME NEW table \in [Demands -> DemandStatus], NEW ds, NEW from, NEW to \in DemandStatus
    PROVE  MoveDemands(table, ds, from, to) \in [Demands -> DemandStatus]
BY DEF MoveDemands

\* A row of block_plans that was written keeps its shape when one column is set.
LEMMA PlanFields ==
    ASSUME TypeOK, NEW p \in Plans, plans[p] # None
    PROVE  plans[p] \in Plan
BY DEF TypeOK

\* Facts that an acknowledged or queued row carries over a step that keeps the rows.
LEMMA AckedKept ==
    ASSUME RowsKept, NEW p \in Plans, Acked(p)
    PROVE  Acked(p)'
BY DEF RowsKept, Acked

\* What the requests in flight rely on survives a step that takes nothing back.
LEMMA VouchedKept ==
    ASSUME IInv, Kept, RowsKept, \A s \in Sessions : req'[s] = req[s] \/ req'[s] = None
    PROVE  Vouched'
<1> SUFFICES ASSUME NEW s \in Sessions, req'[s] # None
             PROVE  VouchedReq(req[s])'
    BY DEF Vouched
<1>1. req'[s] = req[s] /\ req[s] # None /\ VouchedReq(req[s])
    BY DEF IInv, Vouched
<1>2. /\ req[s].op \in PlanOps => req[s].plan \in Plans
      /\ req[s].op = "breakdown" => req[s].targets \subseteq Plans
    BY <1>1, ReqFields DEF IInv
<1>3. req[s].op \in {"activate", "complete", "archive"} => Acked(req[s].plan)'
    BY <1>1, <1>2, AckedKept DEF VouchedReq, PlanOps
<1> QED
    BY <1>1, <1>2, <1>3 DEF Kept, VouchedReq, PlanOps, Signed, Acked

\* The queue of signed plans survives a step that keeps the rows and adds none.
LEMMA QueuedKept ==
    ASSUME IInv, Kept, RowsKept, \A o \in Rows : outbox'[o] # None => outbox[o] # None
    PROVE  Queued'
<1> SUFFICES ASSUME NEW o \in Rows, outbox'[o] # None
             PROVE  /\ plans'[outbox'[o].plan] # None
                    /\ plans'[outbox'[o].plan].status # "PROVISIONAL"
                    /\ plans'[outbox'[o].plan].decidedBy # None
                    /\ plans'[outbox'[o].plan].authorizedBy # None
    BY DEF Queued, Signed
<1>1. outbox[o] # None /\ outbox'[o].plan = outbox[o].plan
    BY DEF RowsKept
<1>2. outbox[o] \in OutboxRow
    BY <1>1 DEF IInv, TypeOK
<1>3. outbox[o].plan \in Plans
    BY <1>2 DEF OutboxRow
<1> QED
    BY <1>1, <1>3 DEF IInv, Queued, Signed, Kept

\* A transaction that does not touch the outbox: it remains to look at the plans.
LEMMA CommitStep ==
    ASSUME IInv, TypeOK', Kept, Backed', UNCHANGED <<outbox, bridge>>,
           \A s \in Sessions : req'[s] = req[s] \/ req'[s] = None
    PROVE  IInv'
<1>1. RowsKept
    BY DEF RowsKept
<1>2. Vouched' /\ Queued'
    BY <1>1, VouchedKept, QueuedKept
<1>3. InHand'
    BY DEF IInv, InHand, Waiting
<1> QED
    BY <1>2, <1>3 DEF IInv

\* A request that is read: what it may rely on holds of the rows it read.
LEMMA ReadStep ==
    ASSUME IInv, NEW s \in Sessions, NEW r \in Request, Begin(s, r), VouchedReq(r),
           UNCHANGED <<tables, bridge>>
    PROVE  IInv'
<1>1. req' = [req EXCEPT ![s] = r] /\ req \in [Sessions -> Request \cup {None}]
    BY DEF Begin, IInv, TypeOK
<1>2. TypeOK'
    BY <1>1 DEF IInv, TypeOK, tables
<1>3. Backed' /\ Queued' /\ InHand'
    BY DEF IInv, Backed, Queued, InHand, Waiting, Acked, Signed, tables
<1>4. Vouched'
    BY <1>1 DEF IInv, Vouched, VouchedReq, Acked, Signed, tables
<1> QED
    BY <1>2, <1>3, <1>4 DEF IInv
----------------------------------------------------------------------------
\* The early returns of each handler establish what its commit relies on.
LEMMA DecideReadStep ==
    ASSUME IInv, NEW s \in Sessions, DecideRequest(s)
    PROVE  IInv'
<1>1. PICK d \in Decisions, p \in Plans, u \in Users, k \in Keys : DecideRead(s, d, p, u, k)
    BY DEF DecideRequest
<1> DEFINE r == [op |-> d.op, plan |-> p, actor |-> u, key |-> k]
<1>2. /\ Begin(s, r) /\ UNCHANGED <<tables, bridge>>
      /\ plans[p] # None /\ plans[p].status \in d.from
    BY <1>1 DEF DecideRead
<1>3. d.op \in {"approve", "authorize", "reject"}
      /\ d.from \subseteq {"SENTINEL_PASSED", "APPROVED_SR_DOM", "AUTHORIZED_DRM"}
      /\ (d.op = "authorize" => d.from = {"APPROVED_SR_DOM"})
    BY DEF Decisions
<1>4. r \in Request
    BY <1>3 DEF Request
<1>5. VouchedReq(r)
    BY <1>2, <1>3 DEF VouchedReq, IInv, Backed
<1> HIDE DEF r
<1> QED
    BY <1>2, <1>4, <1>5, ReadStep

LEMMA AcknowledgeReadStep ==
    ASSUME IInv, NEW s \in Sessions, AcknowledgeRequest(s)
    PROVE  IInv'
<1>1. PICK p \in Plans, role \in SignalRole : AcknowledgeRead(s, p, role)
    BY DEF AcknowledgeRequest
<1> DEFINE r == [op |-> "acknowledge-signal", plan |-> p, role |-> role,
                 draft |-> plans[p].status = "DRAFT"]
<1>2. Begin(s, r) /\ UNCHANGED <<tables, bridge>> /\ plans[p] # None
    BY <1>1 DEF AcknowledgeRead
<1>3. (plans[p].status = "DRAFT") \in BOOLEAN
    OBVIOUS
<1>4. r \in Request
    BY <1>3 DEF Request
<1>5. VouchedReq(r)
    BY <1>2 DEF VouchedReq
<1> HIDE DEF r
<1> QED
    BY <1>2, <1>4, <1>5, ReadStep

LEMMA ReviseReadStep ==
    ASSUME IInv, NEW s \in Sessions, ReviseRequest(s)
    PROVE  IInv'
<1>1. PICK p \in Plans, from \in Times, to \in Times : ReviseRead(s, p, from, to)
    BY DEF ReviseRequest
<1> DEFINE r == [op |-> "revise", plan |-> p, start |-> from, end |-> to]
<1>2. Begin(s, r) /\ UNCHANGED <<tables, bridge>> /\ plans[p] # None
    BY <1>1 DEF ReviseRead
<1>3. r \in Request
    BY DEF Request
<1>4. VouchedReq(r)
    BY <1>2 DEF VouchedReq
<1> HIDE DEF r
<1> QED
    BY <1>2, <1>3, <1>4, ReadStep

LEMMA TransmitReadStep ==
    ASSUME IInv, NEW s \in Sessions, TransmitRequest(s)
    PROVE  IInv'
<1>1. PICK p \in Plans : TransmitRead(s, p)
    BY DEF TransmitRequest
<1> DEFINE r == [op |-> "transmit", plan |-> p]
<1>2. /\ Begin(s, r) /\ UNCHANGED <<tables, bridge>>
      /\ plans[p] # None /\ plans[p].status = "AUTHORIZED_DRM"
    BY <1>1 DEF TransmitRead
<1>3. r \in Request
    BY DEF Request
<1>4. Signed(p)
    BY <1>2 DEF IInv, Backed
<1>5. VouchedReq(r)
    BY <1>2, <1>4 DEF VouchedReq
<1> HIDE DEF r
<1> QED
    BY <1>2, <1>3, <1>5, ReadStep

LEMMA MoveReadStep ==
    ASSUME IInv, NEW s \in Sessions, MoveRequest(s)
    PROVE  IInv'
<1>1. PICK m \in Moves, p \in Plans : MoveRead(s, m, p)
    BY DEF MoveRequest
<1> DEFINE r == [op |-> m.op, plan |-> p]
<1>2. /\ Begin(s, r) /\ UNCHANGED <<tables, bridge>>
      /\ plans[p] # None /\ plans[p].status \in m.from
    BY <1>1 DEF MoveRead
<1>3. /\ m.op \in {"activate", "complete", "archive", "cancel"}
      /\ m.op # "cancel" => m.from \subseteq OnLineStatus
      /\ "PROVISIONAL" \notin m.from
    BY DEF Moves, OnLineStatus
<1>4. r \in Request
    BY <1>3 DEF Request
<1>5. m.op # "cancel" => Signed(p) /\ Acked(p)
    BY <1>2, <1>3 DEF IInv, Backed
<1>6. VouchedReq(r)
    BY <1>2, <1>3, <1>5 DEF VouchedReq
<1> HIDE DEF r
<1> QED
    BY <1>2, <1>4, <1>6, ReadStep

LEMMA BreakdownReadStep ==
    ASSUME IInv, NEW s \in Sessions, BreakdownRequest(s)
    PROVE  IInv'
<1>1. PICK sec \in Sections, u \in Users, k \in Keys : BreakdownRead(s, sec, u, k)
    BY DEF BreakdownRequest
<1>2. PICK into \in IF Roots(sec) = {} THEN {None} ELSE Roots(sec) :
        Begin(s, [op |-> "breakdown", section |-> sec, into |-> into,
                  targets |-> OnSection(sec, ActiveStatus), actor |-> u, key |-> k])
    BY <1>1 DEF BreakdownRead
<1> DEFINE targets == OnSection(sec, ActiveStatus)
           r == [op |-> "breakdown", section |-> sec, into |-> into,
                 targets |-> targets, actor |-> u, key |-> k]
<1>3. UNCHANGED <<tables, bridge>>
    BY <1>1 DEF BreakdownRead
<1>4. into \in Incidents \cup {None}
    BY DEF Roots
<1>5. /\ targets \in SUBSET Plans
      /\ \A p \in targets : plans[p] # None /\ plans[p].status # "PROVISIONAL"
    BY DEF OnSection, ActiveStatus
<1> HIDE DEF targets
<1>6. r \in Request
    BY <1>4, <1>5 DEF Request
<1>7. VouchedReq(r)
    BY <1>5 DEF VouchedReq, PlanOps
<1>8. Begin(s, r)
    BY <1>2 DEF targets
<1> HIDE DEF r
<1> QED
    BY <1>3, <1>6, <1>7, <1>8, ReadStep
----------------------------------------------------------------------------
\* A row that may stand at identifier p.
Fit(row, p) ==
    /\ DistinctApprovers(row)
    /\ row.status = "APPROVED_SR_DOM" => row.decidedBy # None
    /\ row.status \in OnLineStatus \cup {"AUTHORIZED_DRM"}
       => row.decidedBy # None /\ row.authorizedBy # None
    /\ row.status \in OnLineStatus => Acked(p)

\* The new row takes nothing back from the old one.
Follows(row, old) ==
    /\ old.decidedBy # None => row.decidedBy # None
    /\ old.authorizedBy # None => row.authorizedBy # None
    /\ old.status # "PROVISIONAL" => row.status # "PROVISIONAL"

\* One plan is updated, the outbox is left alone.
LEMMA OneRow ==
    ASSUME IInv, NEW p \in Plans, plans[p] # None, NEW row \in Plan,
           plans' = [plans EXCEPT ![p] = row], UNCHANGED outbox,
           Follows(row, plans[p]), Fit(row, p)
    PROVE  plans' \in [Plans -> Plan \cup {None}] /\ Kept /\ Backed'
<1>1. plans \in [Plans -> Plan \cup {None}] /\ None \notin Plan
    BY StoreAssumption DEF IInv, TypeOK
<1>2. plans' \in [Plans -> Plan \cup {None}]
    BY <1>1
<1>3. \A q \in Plans : plans'[q] = IF q = p THEN row ELSE plans[q]
    BY <1>1
<1>4. Kept
    BY <1>1, <1>3 DEF Kept, Follows
<1>5. \A q \in Plans : Acked(q)' = Acked(q)
    BY DEF Acked
<1>6. Backed'
    BY <1>1, <1>3, <1>5 DEF Backed, Fit, Signed, IInv
<1> QED
    BY <1>2, <1>4, <1>6

\* The session of a request that ends is idle again.
LEMMA FinishType ==
    ASSUME TypeOK, NEW s \in Sessions, Finish(s)
    PROVE  /\ req' \in [Sessions -> Request \cup {None}]
           /\ \A t \in Sessions : req'[t] = req[t] \/ req'[t] = None
BY DEF TypeOK, Finish

\* The key of a recorded effect.
LEMMA KeyType ==
    ASSUME TypeOK, NEW k \in Keys, NEW u \in Users, NEW e \in Endpoint, RecordKey(k, e, u)
    PROVE  keys' \in [Keys -> KeyRow \cup {None}] /\ effects' \in [Keys -> Nat]
BY DEF TypeOK, RecordKey, KeyRow

\* What every decision shares: with its rows of the right shape it keeps the invariant.
LEMMA DecidedStep ==
    ASSUME IInv, NEW s \in Sessions, Decided(s),
           req[s] # None, req[s].op \in {"approve", "authorize", "reject"},
           plans' \in [Plans -> Plan \cup {None}], Kept, Backed',
           demand' \in [Demands -> DemandStatus]
    PROVE  IInv'
<1>1. req[s].actor \in Users /\ req[s].key \in Keys
    BY ReqFields DEF IInv
<1>2. RecordKey(req[s].key, "/approvals/decide", req[s].actor) /\ Finish(s)
    BY DEF Decided
<1>3. keys' \in [Keys -> KeyRow \cup {None}] /\ effects' \in [Keys -> Nat]
    BY <1>1, <1>2, KeyType DEF Endpoint, IInv
<1>4. /\ req' \in [Sessions -> Request \cup {None}]
      /\ \A t \in Sessions : req'[t] = req[t] \/ req'[t] = None
    BY <1>2, FinishType DEF IInv
<1>5. UNCHANGED <<acks, outbox, incidents, runs, bridge, vetted>>
    BY DEF Decided
<1>6. TypeOK'
    BY <1>3, <1>4, <1>5 DEF TypeOK, IInv
<1> QED
    BY <1>4, <1>5, <1>6, CommitStep

LEMMA ApproveStep ==
    ASSUME IInv, NEW s \in Sessions, ApproveCommit(s)
    PROVE  IInv'
<1> DEFINE p == req[s].plan
           row == [plans[p] EXCEPT !.status = "APPROVED_SR_DOM", !.decidedBy = req[s].actor]
<1>1. req[s] # None /\ req[s].op = "approve" /\ Decided(s)
    BY DEF ApproveCommit, Serving
<1>2. p \in Plans /\ req[s].actor \in Users
    BY <1>1, ReqFields DEF IInv, PlanOps
<1>3. plans[p] # None /\ plans[p].status # "PROVISIONAL"
    BY <1>1 DEF IInv, Vouched, VouchedReq, PlanOps
<1>4. plans[p] \in Plan
    BY <1>2, <1>3, PlanFields DEF IInv
<1>5. row \in Plan /\ row.status = "APPROVED_SR_DOM" /\ row.decidedBy = req[s].actor
      /\ row.authorizedBy = plans[p].authorizedBy
    BY <1>2, <1>4 DEF Plan, PlanStatus
<1>6. plans' = [plans EXCEPT ![p] = row]
    BY <1>2 DEF ApproveCommit, IInv, TypeOK
<1>7. DistinctApprovers(row)
  <2>1. Admissible(plans') /\ None \notin Plan
      BY <1>1, StoreAssumption DEF Decided
  <2>2. plans'[p] = row
      BY <1>2, <1>6 DEF IInv, TypeOK
  <2> QED
      BY <1>2, <1>5, <2>1, <2>2 DEF Admissible
<1>8. req[s].actor # None
    BY <1>2, StoreAssumption
<1>9. Follows(row, plans[p]) /\ Fit(row, p)
    BY <1>3, <1>5, <1>7, <1>8 DEF Follows, Fit, OnLineStatus
<1>10. UNCHANGED outbox
    BY <1>1 DEF Decided
<1>11. demand' \in [Demands -> DemandStatus]
    BY MoveType DEF ApproveCommit, DemandStatus, IInv, TypeOK
<1> HIDE DEF p, row
<1>12. plans' \in [Plans -> Plan \cup {None}] /\ Kept /\ Backed'
    BY <1>2, <1>3, <1>5, <1>6, <1>9, <1>10, OneRow
<1> QED
    BY <1>1, <1>11, <1>12, DecidedStep

LEMMA AuthorizeStep ==
    ASSUME IInv, NEW s \in Sessions, AuthorizeCommit(s)
    PROVE  IInv'
<1> DEFINE p == req[s].plan
           row == [plans[p] EXCEPT !.status = "AUTHORIZED_DRM", !.authorizedBy = req[s].actor]
<1>1. req[s] # None /\ req[s].op = "authorize" /\ Decided(s)
    BY DEF AuthorizeCommit, Serving
<1>2. p \in Plans /\ req[s].actor \in Users
    BY <1>1, ReqFields DEF IInv, PlanOps
<1>3. plans[p] # None /\ plans[p].status # "PROVISIONAL" /\ plans[p].decidedBy # None
    BY <1>1 DEF IInv, Vouched, VouchedReq, PlanOps
<1>4. plans[p] \in Plan
    BY <1>2, <1>3, PlanFields DEF IInv
<1>5. row \in Plan /\ row.status = "AUTHORIZED_DRM" /\ row.authorizedBy = req[s].actor
      /\ row.decidedBy = plans[p].decidedBy
    BY <1>2, <1>4 DEF Plan, PlanStatus
<1>6. plans' = [plans EXCEPT ![p] = row]
    BY <1>2 DEF AuthorizeCommit, IInv, TypeOK
<1>7. DistinctApprovers(row)
  <2>1. Admissible(plans') /\ None \notin Plan
      BY <1>1, StoreAssumption DEF Decided
  <2>2. plans'[p] = row
      BY <1>2, <1>6 DEF IInv, TypeOK
  <2> QED
      BY <1>2, <1>5, <2>1, <2>2 DEF Admissible
<1>8. req[s].actor # None
    BY <1>2, StoreAssumption
<1>9. Follows(row, plans[p]) /\ Fit(row, p)
    BY <1>3, <1>5, <1>7, <1>8 DEF Follows, Fit, OnLineStatus
<1>10. UNCHANGED outbox
    BY <1>1 DEF Decided
<1>11. demand' \in [Demands -> DemandStatus]
    BY MoveType DEF AuthorizeCommit, DemandStatus, IInv, TypeOK
<1> HIDE DEF p, row
<1>12. plans' \in [Plans -> Plan \cup {None}] /\ Kept /\ Backed'
    BY <1>2, <1>3, <1>5, <1>6, <1>9, <1>10, OneRow
<1> QED
    BY <1>1, <1>11, <1>12, DecidedStep

\* A status that asks for no signature may be written over any other.
LEMMA PlainStatus ==
    ASSUME IInv, NEW p \in Plans, plans[p] # None,
           NEW st \in PlanStatus \ (OnLineStatus \cup {"AUTHORIZED_DRM", "APPROVED_SR_DOM", "PROVISIONAL"}),
           NEW seal \in Content \cup {None}
    PROVE  LET row == [plans[p] EXCEPT !.status = st, !.seal = seal]
           IN row \in Plan /\ Follows(row, plans[p]) /\ Fit(row, p)
<1>1. plans[p] \in Plan
    BY PlanFields DEF IInv
<1>2. DistinctApprovers(plans[p])
    BY DEF IInv, Backed
<1> DEFINE row == [plans[p] EXCEPT !.status = st, !.seal = seal]
<1>3. /\ row \in Plan /\ row.status = st /\ row.decidedBy = plans[p].decidedBy
      /\ row.authorizedBy = plans[p].authorizedBy
    BY <1>1 DEF Plan
<1>4. DistinctApprovers(row)
    BY <1>2, <1>3 DEF DistinctApprovers
<1> HIDE DEF row
<1>5. Follows(row, plans[p]) /\ Fit(row, p)
    BY <1>3, <1>4 DEF Follows, Fit
<1> QED
    BY <1>3, <1>5 DEF row

LEMMA RejectStep ==
    ASSUME IInv, NEW s \in Sessions, RejectCommit(s)
    PROVE  IInv'
<1> DEFINE p == req[s].plan
           row == [plans[p] EXCEPT !.status = "CANCELLED", !.seal = plans[p].seal]
<1>1. req[s] # None /\ req[s].op = "reject" /\ Decided(s)
    BY DEF RejectCommit, Serving
<1>2. p \in Plans
    BY <1>1, ReqFields DEF IInv, PlanOps
<1>3. plans[p] # None
    BY <1>1 DEF IInv, Vouched, VouchedReq, PlanOps
<1>4. plans[p] \in Plan
    BY <1>2, <1>3, PlanFields DEF IInv
<1>5. plans[p].seal \in Content \cup {None}
    BY <1>4 DEF Plan
<1>6. row \in Plan /\ Follows(row, plans[p]) /\ Fit(row, p)
    BY <1>2, <1>3, <1>5, PlainStatus DEF PlanStatus, OnLineStatus
<1>7. row = [plans[p] EXCEPT !.status = "CANCELLED"]
    BY <1>4 DEF Plan
<1>8. plans' = [plans EXCEPT ![p] = row]
    BY <1>2, <1>7 DEF RejectCommit, IInv, TypeOK
<1>9. UNCHANGED outbox
    BY <1>1 DEF Decided
<1>10. demand' \in [Demands -> DemandStatus]
    BY MoveType DEF RejectCommit, DemandStatus, IInv, TypeOK
<1> HIDE DEF p, row
<1>11. plans' \in [Plans -> Plan \cup {None}] /\ Kept /\ Backed'
    BY <1>2, <1>3, <1>6, <1>8, <1>9, OneRow
<1> QED
    BY <1>1, <1>10, <1>11, DecidedStep

LEMMA AcknowledgeStep ==
    ASSUME IInv, NEW s \in Sessions, AcknowledgeCommit(s)
    PROVE  IInv'
<1> DEFINE p == req[s].plan
           row == [plans[p] EXCEPT !.status = "SENTINEL_PASSED", !.seal = plans[p].content]
<1>1. req[s] # None /\ req[s].op = "acknowledge-signal" /\ Finish(s)
    BY DEF AcknowledgeCommit, Serving
<1>2. p \in Plans /\ req[s].role \in SignalRole
    BY <1>1, ReqFields DEF IInv, PlanOps
<1>3. plans[p] # None
    BY <1>1 DEF IInv, Vouched, VouchedReq, PlanOps
<1>4. UNCHANGED <<outbox, keys, incidents, runs, bridge, vetted, effects>>
    BY DEF AcknowledgeCommit
<1>5. row \in Plan /\ Follows(row, plans[p]) /\ Fit(row, p)
  <2>1. plans[p].content \in Content \cup {None}
      BY <1>2, <1>3, PlanFields DEF IInv, Plan
  <2> QED
      BY <1>2, <1>3, <2>1, PlainStatus DEF PlanStatus, OnLineStatus
<1>6. plans' = plans \/ plans' = [plans EXCEPT ![p] = row]
    BY <1>2 DEF AcknowledgeCommit, IInv, TypeOK
<1>7. plans' \in [Plans -> Plan \cup {None}] /\ Kept /\ Backed'
  <2>1. CASE plans' = plans
      BY <1>4, <2>1 DEF IInv, TypeOK, Kept, Backed, Signed, Acked
  <2>2. CASE plans' = [plans EXCEPT ![p] = row]
    <3> HIDE DEF p, row
    <3> QED
      BY <1>2, <1>3, <1>4, <1>5, <2>2, OneRow
  <2> QED
      BY <1>6, <2>1, <2>2
<1>8. demand' \in [Demands -> DemandStatus]
    BY MoveType DEF AcknowledgeCommit, DemandStatus, IInv, TypeOK
<1>9. acks' \in [Plans -> SUBSET SignalRole]
    BY <1>2 DEF AcknowledgeCommit, IInv, TypeOK
<1>10. /\ req' \in [Sessions -> Request \cup {None}]
       /\ \A t \in Sessions : req'[t] = req[t] \/ req'[t] = None
    BY <1>1, FinishType DEF IInv
<1>11. TypeOK'
    BY <1>4, <1>7, <1>8, <1>9, <1>10 DEF TypeOK, IInv
<1> QED
    BY <1>4, <1>7, <1>10, <1>11, CommitStep

LEMMA MoveStep ==
    ASSUME IInv, NEW s \in Sessions, MoveCommitted(s)
    PROVE  IInv'
<1>1. PICK m \in Moves : MoveCommit(s, m)
    BY DEF MoveCommitted
<1> DEFINE p == req[s].plan
           row == [plans[p] EXCEPT !.status = m.to]
<1>2. req[s] # None /\ req[s].op = m.op /\ Finish(s)
    BY <1>1 DEF MoveCommit, Serving
<1>3. /\ m.op \in {"activate", "complete", "archive", "cancel"}
      /\ m.to \in OnLineStatus \cup {"CANCELLED"}
      /\ m.op = "cancel" <=> m.to = "CANCELLED"
    BY DEF Moves, OnLineStatus
<1>4. p \in Plans
    BY <1>2, <1>3, ReqFields DEF IInv, PlanOps
<1>5. /\ plans[p] # None
      /\ m.op # "cancel" => Signed(p) /\ Acked(p)
    BY <1>2, <1>3 DEF IInv, Vouched, VouchedReq, PlanOps
<1>6. plans[p] \in Plan /\ DistinctApprovers(plans[p])
    BY <1>4, <1>5, PlanFields DEF IInv, Backed
<1>7. /\ row \in Plan /\ row.status = m.to
      /\ row.decidedBy = plans[p].decidedBy /\ row.authorizedBy = plans[p].authorizedBy
  <2>1. m.to \in PlanStatus
      BY <1>3 DEF PlanStatus, OnLineStatus
  <2> QED
      BY <1>6, <2>1 DEF Plan
<1>8. plans' = [plans EXCEPT ![p] = row]
    BY <1>1, <1>4 DEF MoveCommit, IInv, TypeOK
<1>9. DistinctApprovers(row)
    BY <1>6, <1>7 DEF DistinctApprovers
<1>10. Follows(row, plans[p]) /\ Fit(row, p)
    BY <1>3, <1>5, <1>7, <1>9 DEF Follows, Fit, OnLineStatus, Signed
<1>11. UNCHANGED <<acks, outbox, keys, incidents, runs, bridge, vetted, effects>>
    BY <1>1 DEF MoveCommit
<1>12. demand' \in [Demands -> DemandStatus]
  <2>1. m.to \in DemandStatus
      BY <1>3 DEF DemandStatus, OnLineStatus
  <2> QED
      BY <1>1, <2>1, MoveType DEF MoveCommit, IInv, TypeOK
<1>13. plans' \in [Plans -> Plan \cup {None}] /\ Kept /\ Backed'
  <2> HIDE DEF p, row
  <2> QED
    BY <1>4, <1>5, <1>7, <1>8, <1>10, <1>11, OneRow
<1>14. /\ req' \in [Sessions -> Request \cup {None}]
       /\ \A t \in Sessions : req'[t] = req[t] \/ req'[t] = None
    BY <1>2, FinishType DEF IInv
<1>15. TypeOK'
    BY <1>11, <1>12, <1>13, <1>14 DEF TypeOK, IInv
<1> QED
    BY <1>11, <1>13, <1>14, <1>15, CommitStep

\* Several rows of block_plans are written at once.
LEMMA ManyRows ==
    ASSUME IInv, UNCHANGED outbox,
           \A p \in Plans :
             \/ plans'[p] = plans[p]
             \/ /\ plans'[p] # None
                /\ Fit(plans'[p], p)
                /\ plans[p] # None => Follows(plans'[p], plans[p])
    PROVE  Kept /\ Backed'
<1>1. Kept
    BY DEF Kept, Follows
<1>2. \A q \in Plans : Acked(q)' = Acked(q)
    BY DEF Acked
<1>3. Backed'
    BY <1>2 DEF Backed, Fit, Signed, IInv
<1> QED
    BY <1>1, <1>3

\* A row as the INSERTs write it.
LEMMA NewRow ==
    ASSUME NEW c \in Content, NEW st \in {"DRAFT", "SENTINEL_PASSED", "PROVISIONAL"},
           NEW seal \in Content \cup {None}, NEW old \in Plans \cup {None},
           NEW inc \in Incidents \cup {None}, NEW p
    PROVE  NewPlan(c, st, seal, old, inc) \in Plan /\ Fit(NewPlan(c, st, seal, old, inc), p)
<1>1. st \in PlanStatus
    BY DEF PlanStatus
<1>2. NewPlan(c, st, seal, old, inc) \in Plan
    BY <1>1 DEF NewPlan, Plan
<1>3. Fit(NewPlan(c, st, seal, old, inc), p)
    BY DEF NewPlan, Fit, DistinctApprovers, OnLineStatus
<1> QED
    BY <1>2, <1>3

LEMMA ReviseStep ==
    ASSUME IInv, NEW s \in Sessions, ReviseCommit(s)
    PROVE  IInv'
<1> DEFINE p == req[s].plan
           old == [plans[p] EXCEPT !.status = "SUPERSEDED", !.seal = None]
           new == Revision(p, req[s].start, req[s].end)
<1>1. req[s] # None /\ req[s].op = "revise" /\ Finish(s)
    BY DEF ReviseCommit, Serving
<1>2. p \in Plans /\ req[s].start \in Times /\ req[s].end \in Times
    BY <1>1, ReqFields DEF IInv, PlanOps
<1>3. plans[p] # None
    BY <1>1 DEF IInv, Vouched, VouchedReq, PlanOps
<1>4. plans[p] \in Plan
    BY <1>2, <1>3, PlanFields DEF IInv
<1>5. old \in Plan /\ Follows(old, plans[p]) /\ Fit(old, p)
    BY <1>2, <1>3, PlainStatus DEF PlanStatus, OnLineStatus
<1>6. PICK q \in UnusedPlans :
        plans' = [plans EXCEPT ![q] = new, ![p].status = "SUPERSEDED", ![p].seal = None]
    BY DEF ReviseCommit
<1>7. q \in Plans /\ plans[q] = None /\ q # p
    BY <1>3 DEF UnusedPlans
<1>8. new \in Plan /\ Fit(new, q)
  <2>1. [plans[p].content EXCEPT !.start = req[s].start, !.end = req[s].end] \in Content
      BY <1>2, <1>4 DEF Plan, Content
  <2>2. plans[p].incident \in Incidents \cup {None}
      BY <1>4 DEF Plan
  <2> QED
      BY <1>2, <2>1, <2>2, NewRow DEF Revision
<1>9. plans' = [plans EXCEPT ![q] = new, ![p] = old]
    BY <1>2, <1>6, <1>7 DEF IInv, TypeOK
<1>10. UNCHANGED <<acks, outbox, keys, incidents, runs, bridge, vetted, effects>>
    BY DEF ReviseCommit
<1>11. demand' \in [Demands -> DemandStatus]
    BY MoveType DEF ReviseCommit, DemandStatus, IInv, TypeOK
<1> HIDE DEF p, old, new
<1>12. plans \in [Plans -> Plan \cup {None}] /\ None \notin Plan
    BY StoreAssumption DEF IInv, TypeOK
<1>13. plans' \in [Plans -> Plan \cup {None}]
    BY <1>5, <1>8, <1>9, <1>12
<1>14. \A r \in Plans : plans'[r] = IF r = p THEN old ELSE IF r = q THEN new ELSE plans[r]
    BY <1>2, <1>7, <1>9, <1>12
<1>15. Kept /\ Backed'
  <2>1. \A r \in Plans :
             \/ plans'[r] = plans[r]
             \/ /\ plans'[r] # None
                /\ Fit(plans'[r], r)
                /\ plans[r] # None => Follows(plans'[r], plans[r])
    BY <1>5, <1>7, <1>8, <1>12, <1>14
  <2> QED
    BY <1>10, <2>1, ManyRows
<1>16. /\ req' \in [Sessions -> Request \cup {None}]
       /\ \A t \in Sessions : req'[t] = req[t] \/ req'[t] = None
    BY <1>1, FinishType DEF IInv
<1>17. TypeOK'
    BY <1>10, <1>11, <1>13, <1>16 DEF TypeOK, IInv
<1> QED
    BY <1>10, <1>15, <1>16, <1>17, CommitStep
----------------------------------------------------------------------------
\* A step that leaves block_plans alone.
LEMMA SamePlans ==
    ASSUME IInv, UNCHANGED plans, RowsKept
    PROVE  Kept /\ Backed'
<1>1. Kept
    BY DEF Kept
<1>2. Backed'
    BY AckedKept DEF IInv, Backed, Signed
<1> QED
    BY <1>1, <1>2

LEMMA TransmitStep ==
    ASSUME IInv, NEW s \in Sessions, TransmitCommit(s)
    PROVE  IInv'
<1> DEFINE p == req[s].plan
           row == [plan |-> p, state |-> "PENDING", attempts |-> 0, due |-> FALSE]
<1>1. req[s] # None /\ req[s].op = "transmit" /\ Finish(s)
    BY DEF TransmitCommit, Serving
<1>2. p \in Plans
    BY <1>1, ReqFields DEF IInv, PlanOps
<1>3. plans[p] # None /\ plans[p].status # "PROVISIONAL" /\ Signed(p)
    BY <1>1 DEF IInv, Vouched, VouchedReq, PlanOps
<1>4. PICK o \in Rows : outbox[o] = None /\ outbox' = [outbox EXCEPT ![o] = row]
    BY DEF TransmitCommit
<1>5. UNCHANGED <<plans, demand, acks, keys, incidents, runs, bridge, vetted, effects>>
    BY DEF TransmitCommit
<1>6. row \in OutboxRow /\ None \notin OutboxRow
    BY <1>2, StoreAssumption DEF OutboxRow
<1>7. \A x \in Rows : outbox'[x] = IF x = o THEN row ELSE outbox[x]
    BY <1>4 DEF IInv, TypeOK
<1>8. outbox' \in [Rows -> OutboxRow \cup {None}]
    BY <1>4, <1>6 DEF IInv, TypeOK
<1>9. row.plan = p
    OBVIOUS
<1> HIDE DEF p, row
<1>10. /\ req' \in [Sessions -> Request \cup {None}]
       /\ \A t \in Sessions : req'[t] = req[t] \/ req'[t] = None
    BY <1>1, FinishType DEF IInv
<1>11. TypeOK'
    BY <1>5, <1>8, <1>10 DEF TypeOK, IInv
<1>12. RowsKept
    BY <1>4, <1>7 DEF RowsKept
<1>13. Kept /\ Backed'
    BY <1>5, <1>12, SamePlans
<1>14. Vouched'
    BY <1>10, <1>12, <1>13, VouchedKept
<1>15. Queued'
    BY <1>3, <1>5, <1>7, <1>9 DEF IInv, Queued, Signed
<1>16. InHand'
    BY <1>4, <1>5, <1>7 DEF IInv, TypeOK, InHand, Waiting, Iteration
<1> QED
    BY <1>11, <1>13, <1>14, <1>15, <1>16 DEF IInv

LEMMA RipenStep ==
    ASSUME IInv, NEW o \in Rows, Ripen(o)
    PROVE  IInv'
<1>1. /\ outbox[o] # None /\ outbox' = [outbox EXCEPT ![o].due = TRUE]
      /\ UNCHANGED <<plans, demand, acks, keys, incidents, runs, req, bridge, vetted, effects>>
    BY DEF Ripen
<1>2. outbox[o] \in OutboxRow /\ None \notin OutboxRow
    BY <1>1, StoreAssumption DEF IInv, TypeOK
<1> DEFINE row == [outbox[o] EXCEPT !.due = TRUE]
<1>3. /\ row \in OutboxRow /\ row.plan = outbox[o].plan
      /\ row.state = outbox[o].state /\ row.attempts = outbox[o].attempts
    BY <1>2 DEF OutboxRow
<1>4. outbox' = [outbox EXCEPT ![o] = row]
    BY <1>1 DEF IInv, TypeOK
<1> HIDE DEF row
<1>5. \A x \in Rows : outbox'[x] = IF x = o THEN row ELSE outbox[x]
    BY <1>4 DEF IInv, TypeOK
<1>6. TypeOK'
    BY <1>1, <1>3, <1>4 DEF IInv, TypeOK
<1>7. RowsKept
    BY <1>2, <1>3, <1>5 DEF RowsKept
<1>8. Kept /\ Backed'
    BY <1>1, <1>7, SamePlans
<1>9. Vouched'
    BY <1>1, <1>7, <1>8, VouchedKept
<1>10. Queued'
    BY <1>1, <1>5, <1>7, <1>8, QueuedKept
<1>11. InHand'
  <2>1. \A x \in Rows : Waiting(x) => Waiting(x)'
    BY <1>2, <1>3, <1>5 DEF Waiting
  <2> QED
    BY <1>1, <2>1 DEF IInv, TypeOK, InHand, Iteration
<1> QED
    BY <1>6, <1>8, <1>9, <1>10, <1>11 DEF IInv

LEMMA BridgeReadStep ==
    ASSUME IInv, BridgeRead
    PROVE  IInv'
<1>1. UNCHANGED <<tables, req>> /\ bridge = None
    BY DEF BridgeRead
<1>2. /\ bridge' \in Iteration
      /\ bridge'.refused \subseteq Due /\ bridge'.rest \subseteq Due
      /\ bridge'.first \in Due \cup {None}
  <2>1. PICK refused \in SUBSET (Due \ AllowedRows) :
         \/ /\ refused = Due
            /\ bridge' = [refused |-> refused, first |-> None, rest |-> {}]
         \/ \E o \in AllowedRows :
              bridge' = [refused |-> refused, first |-> o, rest |-> Due \ (refused \cup {o})]
    BY DEF BridgeRead
  <2>2. refused \subseteq Due /\ AllowedRows \subseteq Due /\ Due \subseteq Rows
    BY DEF AllowedRows, Due
  <2>3. CASE bridge' = [refused |-> refused, first |-> None, rest |-> {}]
    BY <2>2, <2>3 DEF Iteration
  <2>4. ASSUME NEW o \in AllowedRows,
               bridge' = [refused |-> refused, first |-> o, rest |-> Due \ (refused \cup {o})]
        PROVE  <1>2
    <3>1. Due \ (refused \cup {o}) \in SUBSET Rows /\ o \in Rows /\ refused \in SUBSET Rows
      BY <2>2
    <3> HIDE DEF Due
    <3> QED
      BY <2>2, <2>4, <3>1 DEF Iteration
  <2> QED
    BY <2>1, <2>3, <2>4
<1>3. \A o \in Due : Waiting(o)
    BY DEF Due, Waiting
<1>4. TypeOK'
    BY <1>1, <1>2 DEF IInv, TypeOK, tables
<1>5. InHand'
    BY <1>1, <1>2, <1>3 DEF InHand, Waiting, tables
<1>6. Backed' /\ Vouched' /\ Queued'
    BY <1>1 DEF IInv, Backed, Vouched, VouchedReq, Queued, Signed, Acked, tables
<1> QED
    BY <1>4, <1>5, <1>6 DEF IInv

LEMMA BridgeRefuseStep ==
    ASSUME IInv, BridgeRefuse
    PROVE  IInv'
<1>1. /\ bridge # None /\ bridge' = None
      /\ outbox' = [o \in Rows |-> IF o \in bridge.refused
                                   THEN [outbox[o] EXCEPT !.attempts = @ + 1]
                                   ELSE outbox[o]]
      /\ UNCHANGED <<plans, demand, acks, keys, incidents, runs, req, vetted, effects>>
    BY DEF BridgeRefuse
<1>2. \A o \in Rows :
        \/ outbox'[o] = outbox[o]
        \/ /\ outbox[o] # None /\ outbox'[o] \in OutboxRow
           /\ outbox'[o].plan = outbox[o].plan /\ outbox'[o].state = "PENDING"
           /\ outbox[o].state = "PENDING"
  <2> SUFFICES ASSUME NEW o \in Rows, o \in bridge.refused
               PROVE  /\ outbox[o] # None /\ outbox'[o] \in OutboxRow
                      /\ outbox'[o].plan = outbox[o].plan /\ outbox'[o].state = "PENDING"
                      /\ outbox[o].state = "PENDING"
    BY <1>1
  <2>1. Waiting(o)
    BY <1>1 DEF IInv, InHand
  <2>2. outbox[o] \in OutboxRow /\ outbox[o].state = "PENDING" /\ outbox[o].attempts < 3
    BY <2>1 DEF IInv, TypeOK, Waiting
  <2>3. outbox[o].attempts \in 0..3
    BY <2>2 DEF OutboxRow
  <2>4. outbox[o].attempts + 1 \in 0..3
    BY <2>2, <2>3
  <2>5. outbox'[o] = [outbox[o] EXCEPT !.attempts = outbox[o].attempts + 1]
    BY <1>1
  <2> QED
    BY <2>1, <2>2, <2>4, <2>5 DEF OutboxRow, Waiting
<1>3. None \notin OutboxRow /\ outbox \in [Rows -> OutboxRow \cup {None}]
    BY StoreAssumption DEF IInv, TypeOK
<1>4. outbox' \in [Rows -> OutboxRow \cup {None}]
  <2>1. \A o \in Rows : outbox'[o] \in OutboxRow \cup {None}
    BY <1>2, <1>3
  <2> QED
    BY <1>1, <2>1
<1>5. TypeOK'
    BY <1>1, <1>4 DEF IInv, TypeOK
<1>6. RowsKept
    BY <1>2, <1>3 DEF RowsKept
<1>7. Kept /\ Backed'
    BY <1>1, <1>6, SamePlans
<1>8. Vouched'
    BY <1>1, <1>6, <1>7, VouchedKept
<1>9. Queued'
    BY <1>2, <1>6, <1>7, QueuedKept
<1>10. InHand'
    BY <1>1 DEF InHand
<1> QED
    BY <1>5, <1>7, <1>8, <1>9, <1>10 DEF IInv

LEMMA BridgeCommitStep ==
    ASSUME IInv, BridgeCommit
    PROVE  IInv'
<1>1. /\ bridge # None /\ bridge.first # None /\ bridge' = None
      /\ UNCHANGED <<acks, keys, incidents, runs, req, vetted, effects>>
    BY DEF BridgeCommit
<1>2. PICK granted \in Answers :
        /\ outbox' = [o \in Rows |->
                        IF o \in granted THEN [outbox[o] EXCEPT !.state = "ACKED"]
                        ELSE IF o \in bridge.refused \cup bridge.rest
                        THEN [outbox[o] EXCEPT !.attempts = @ + 1]
                        ELSE outbox[o]]
        /\ plans' = [p \in Plans |-> IF p \in {outbox[o].plan : o \in granted}
                                     THEN [plans[p] EXCEPT !.status = "TRANSMITTED_COA"]
                                     ELSE plans[p]]
        /\ demand' = MoveDemands(demand,
                       UNION {plans[p].content.demands : p \in {outbox[o].plan : o \in granted}},
                       DemandStatus, "TRANSMITTED_COA")
    BY DEF BridgeCommit
<1> DEFINE sent == {outbox[o].plan : o \in granted}
<1>3. bridge \in Iteration
    BY <1>1 DEF IInv, TypeOK
<1>4. granted \subseteq {bridge.first} \cup bridge.rest
    BY DEF Answers
<1>5. /\ granted \subseteq Rows
      /\ \A o \in granted \cup bridge.refused \cup bridge.rest : Waiting(o)
    BY <1>1, <1>3, <1>4 DEF IInv, InHand, Iteration
<1>6. None \notin OutboxRow /\ outbox \in [Rows -> OutboxRow \cup {None}]
    BY StoreAssumption DEF IInv, TypeOK
<1>7. \A o \in Rows :
        \/ outbox'[o] = outbox[o] /\ o \notin granted
        \/ /\ outbox[o] # None /\ outbox'[o] \in OutboxRow
           /\ outbox'[o].plan = outbox[o].plan
           /\ outbox[o].state = "PENDING"
           /\ o \in granted => outbox'[o].state = "ACKED"
  <2> SUFFICES ASSUME NEW o \in Rows, o \in granted \cup bridge.refused \cup bridge.rest
               PROVE  /\ outbox[o] # None /\ outbox'[o] \in OutboxRow
                      /\ outbox'[o].plan = outbox[o].plan
                      /\ outbox[o].state = "PENDING"
                      /\ o \in granted => outbox'[o].state = "ACKED"
    BY <1>2
  <2>1. outbox[o] \in OutboxRow /\ outbox[o].state = "PENDING" /\ outbox[o].attempts < 3
    BY <1>5, <1>6 DEF Waiting
  <2>2. outbox[o].attempts \in 0..3
    BY <2>1 DEF OutboxRow
  <2>3. outbox[o].attempts + 1 \in 0..3
    BY <2>1, <2>2
  <2>4. CASE o \in granted
    <3>1. outbox'[o] = [outbox[o] EXCEPT !.state = "ACKED"]
      BY <1>2, <2>4
    <3> QED
      BY <1>6, <2>1, <3>1 DEF OutboxRow
  <2>5. CASE o \notin granted
    <3>1. outbox'[o] = [outbox[o] EXCEPT !.attempts = outbox[o].attempts + 1]
      BY <1>2, <2>5
    <3> QED
      BY <1>6, <2>1, <2>3, <2>5, <3>1 DEF OutboxRow
  <2> QED
    BY <2>4, <2>5
<1>8. outbox' \in [Rows -> OutboxRow \cup {None}]
  <2>1. \A o \in Rows : outbox'[o] \in OutboxRow \cup {None}
    BY <1>6, <1>7
  <2> QED
    BY <1>2, <2>1
<1>9. RowsKept
    BY <1>6, <1>7 DEF RowsKept
<1>10. \A p \in sent : /\ p \in Plans /\ plans[p] # None /\ Signed(p)
                       /\ Acked(p)'
  <2> TAKE p \in sent
  <2>1. PICK o \in granted : p = outbox[o].plan
    OBVIOUS
  <2>2. o \in Rows /\ outbox[o] \in OutboxRow
    BY <1>5, <1>6 DEF Waiting
  <2>3. p \in Plans
    BY <2>1, <2>2 DEF OutboxRow
  <2>4. outbox'[o] # None /\ outbox'[o].plan = p /\ outbox'[o].state = "ACKED"
    BY <1>6, <1>7, <2>1, <2>2
  <2>5. Acked(p)'
    BY <2>2, <2>4 DEF Acked
  <2> QED
    BY <1>6, <2>1, <2>2, <2>3, <2>5 DEF IInv, Queued
<1> HIDE DEF sent
<1>11. \A p \in Plans :
         \/ plans'[p] = plans[p]
         \/ /\ plans[p] # None /\ plans'[p] \in Plan /\ plans'[p].status = "TRANSMITTED_COA"
            /\ plans'[p].decidedBy = plans[p].decidedBy
            /\ plans'[p].authorizedBy = plans[p].authorizedBy
            /\ Signed(p) /\ Acked(p)'
  <2> SUFFICES ASSUME NEW p \in Plans, p \in sent
               PROVE  /\ plans[p] # None /\ plans'[p] \in Plan
                      /\ plans'[p].status = "TRANSMITTED_COA"
                      /\ plans'[p].decidedBy = plans[p].decidedBy
                      /\ plans'[p].authorizedBy = plans[p].authorizedBy
                      /\ Signed(p) /\ Acked(p)'
    BY <1>2 DEF sent
  <2>1. plans'[p] = [plans[p] EXCEPT !.status = "TRANSMITTED_COA"]
    BY <1>2 DEF sent
  <2>2. plans[p] \in Plan
    BY <1>10, PlanFields DEF IInv
  <2>3. "TRANSMITTED_COA" \in PlanStatus
    BY DEF PlanStatus
  <2> QED
    BY <1>10, <2>1, <2>2, <2>3 DEF Plan
<1>12. None \notin Plan /\ plans \in [Plans -> Plan \cup {None}]
    BY StoreAssumption DEF IInv, TypeOK
<1>13. plans' \in [Plans -> Plan \cup {None}]
  <2>1. \A p \in Plans : plans'[p] \in Plan \cup {None}
    BY <1>11, <1>12
  <2> QED
    BY <1>2, <2>1
<1>14. demand' \in [Demands -> DemandStatus]
    BY <1>2, MoveType DEF IInv, TypeOK, DemandStatus
<1>15. TypeOK'
    BY <1>1, <1>8, <1>13, <1>14 DEF IInv, TypeOK
<1>16. Kept
    BY <1>11, <1>12 DEF Kept
<1>17. Backed'
  <2> SUFFICES ASSUME NEW p \in Plans, plans'[p] # None
               PROVE  /\ DistinctApprovers(plans[p])'
                      /\ plans'[p].status = "APPROVED_SR_DOM" => plans'[p].decidedBy # None
                      /\ plans'[p].status \in OnLineStatus \cup {"AUTHORIZED_DRM"} => Signed(p)'
                      /\ plans'[p].status \in OnLineStatus => Acked(p)'
    BY DEF Backed
  <2>1. CASE plans'[p] = plans[p]
    BY <1>9, <2>1, AckedKept DEF IInv, Backed, Signed, DistinctApprovers
  <2>2. CASE plans'[p] # plans[p]
    BY <1>11, <2>2 DEF IInv, Backed, Signed, DistinctApprovers
  <2> QED
    BY <2>1, <2>2
<1>18. Vouched'
    BY <1>1, <1>9, <1>16, VouchedKept
<1>19. Queued'
    BY <1>7, <1>9, <1>16, QueuedKept
<1>20. InHand'
    BY <1>1 DEF InHand
<1> QED
    BY <1>15, <1>17, <1>18, <1>19, <1>20 DEF IInv

LEMMA BridgeAbortStep ==
    ASSUME IInv, BridgeAbort
    PROVE  IInv'
<1>1. bridge' = None /\ UNCHANGED <<tables, req>>
    BY DEF BridgeAbort
<1> QED
    BY <1>1 DEF IInv, TypeOK, Backed, Vouched, VouchedReq, Queued, Signed, Acked, InHand, tables
----------------------------------------------------------------------------
\* A step that changes neither plans nor queue.
LEMMA SideStep ==
    ASSUME IInv, TypeOK', UNCHANGED <<plans, outbox, bridge>>,
           \A s \in Sessions : req'[s] = req[s] \/ req'[s] = None
    PROVE  IInv'
<1>1. RowsKept
    BY DEF RowsKept
<1>2. Kept /\ Backed'
    BY <1>1, SamePlans
<1> QED
    BY <1>2, CommitStep

LEMMA AbortStep ==
    ASSUME IInv, NEW s \in Sessions, Abort(s)
    PROVE  IInv'
<1>1. Finish(s) /\ UNCHANGED <<tables, bridge>>
    BY DEF Abort
<1>2. /\ req' \in [Sessions -> Request \cup {None}]
      /\ \A t \in Sessions : req'[t] = req[t] \/ req'[t] = None
    BY <1>1, FinishType DEF IInv
<1>3. TypeOK'
    BY <1>1, <1>2 DEF IInv, TypeOK, tables
<1> QED
    BY <1>1, <1>2, <1>3, SideStep DEF tables

LEMMA AcknowledgeIncidentStep ==
    ASSUME IInv, NEW i \in Incidents, AcknowledgeIncident(i)
    PROVE  IInv'
<1>1. /\ incidents[i] # None /\ incidents' = [incidents EXCEPT ![i].acked = TRUE]
      /\ UNCHANGED <<plans, demand, acks, outbox, keys, runs, req, bridge, vetted, effects>>
    BY DEF AcknowledgeIncident
<1>2. incidents[i] \in Incident
    BY <1>1 DEF IInv, TypeOK
<1>3. [incidents[i] EXCEPT !.acked = TRUE] \in Incident
    BY <1>2 DEF Incident
<1>4. incidents' = [incidents EXCEPT ![i] = [incidents[i] EXCEPT !.acked = TRUE]]
    BY <1>1 DEF IInv, TypeOK
<1>5. incidents' \in [Incidents -> Incident \cup {None}]
    BY <1>3, <1>4 DEF IInv, TypeOK
<1>6. TypeOK'
    BY <1>1, <1>5 DEF IInv, TypeOK
<1> QED
    BY <1>1, <1>6, SideStep

LEMMA IngestStep ==
    ASSUME IInv, NEW d \in Demands, Ingest(d)
    PROVE  IInv'
<1>1. /\ demand' = [demand EXCEPT ![d] = "SUBMITTED"]
      /\ UNCHANGED <<plans, acks, outbox, keys, incidents, runs, req, bridge, vetted, effects>>
    BY DEF Ingest
<1>2. TypeOK'
    BY <1>1 DEF IInv, TypeOK, DemandStatus
<1> QED
    BY <1>1, <1>2, SideStep

LEMMA SolveStartStep ==
    ASSUME IInv, NEW r \in Runs, SolveStart(r)
    PROVE  IInv'
<1>1. UNCHANGED <<plans, demand, acks, outbox, keys, incidents, req, bridge, vetted, effects>>
    BY DEF SolveStart
<1>2. PICK ds \in SUBSET {d \in Demands : demand[d] \in {"SUBMITTED", "NORMALIZED"}} :
      \E cs \in SUBSET {c \in Offers : c.demands \subseteq ds} :
      \E verdict \in [cs -> BOOLEAN] :
        runs' = [runs EXCEPT ![r] =
                [status |-> "RUNNING", read |-> ds,
                 accepted |-> {[content |-> c, passed |-> verdict[c]] : c \in cs}]]
    BY DEF SolveStart
<1>3. PICK cs \in SUBSET {c \in Offers : c.demands \subseteq ds} :
      \E verdict \in [cs -> BOOLEAN] :
        runs' = [runs EXCEPT ![r] =
                [status |-> "RUNNING", read |-> ds,
                 accepted |-> {[content |-> c, passed |-> verdict[c]] : c \in cs}]]
    BY <1>2
<1>4. PICK verdict \in [cs -> BOOLEAN] :
        runs' = [runs EXCEPT ![r] =
                [status |-> "RUNNING", read |-> ds,
                 accepted |-> {[content |-> c, passed |-> verdict[c]] : c \in cs}]]
    BY <1>3
<1> DEFINE accepted == {[content |-> c, passed |-> verdict[c]] : c \in cs}
<1>5. accepted \in SUBSET [content: Content, passed: BOOLEAN]
    BY OffersAssumption
<1>6. ds \in SUBSET Demands
    OBVIOUS
<1> HIDE DEF accepted
<1>7. [status |-> "RUNNING", read |-> ds, accepted |-> accepted] \in Run
    BY <1>5, <1>6 DEF Run
<1>8. runs' \in [Runs -> Run]
    BY <1>4, <1>7 DEF IInv, TypeOK, accepted
<1>9. TypeOK'
    BY <1>1, <1>8 DEF IInv, TypeOK
<1> QED
    BY <1>1, <1>9, SideStep

\* The status of a run is set.
LEMMA RunType ==
    ASSUME IInv, NEW r \in Runs, NEW st \in {"COMPLETED", "FAILED"},
           runs' = [runs EXCEPT ![r].status = st]
    PROVE  runs' \in [Runs -> Run]
<1>1. runs[r] \in Run
    BY DEF IInv, TypeOK
<1>2. [runs[r] EXCEPT !.status = st] \in Run
    BY <1>1 DEF Run
<1>3. runs' = [runs EXCEPT ![r] = [runs[r] EXCEPT !.status = st]]
    BY DEF IInv, TypeOK
<1> QED
    BY <1>2, <1>3 DEF IInv, TypeOK

LEMMA SolveNothingStep ==
    ASSUME IInv, NEW r \in Runs, SolveNothing(r)
    PROVE  IInv'
<1>1. UNCHANGED <<plans, demand, acks, outbox, keys, incidents, req, bridge, vetted, effects>>
    BY DEF SolveNothing
<1>2. runs' \in [Runs -> Run]
    BY RunType DEF SolveNothing
<1>3. TypeOK'
    BY <1>1, <1>2 DEF IInv, TypeOK
<1> QED
    BY <1>1, <1>3, SideStep

LEMMA SolveEscalateStep ==
    ASSUME IInv, NEW r \in Runs, SolveEscalate(r)
    PROVE  IInv'
<1>1. UNCHANGED <<plans, acks, outbox, keys, incidents, req, bridge, vetted, effects>>
    BY DEF SolveEscalate
<1>2. runs' \in [Runs -> Run]
    BY RunType DEF SolveEscalate
<1>3. demand' \in [Demands -> DemandStatus]
    BY MoveType DEF SolveEscalate, IInv, TypeOK, DemandStatus
<1>4. TypeOK'
    BY <1>1, <1>2, <1>3 DEF IInv, TypeOK
<1> QED
    BY <1>1, <1>4, SideStep

LEMMA SolveCommitStep ==
    ASSUME IInv, NEW r \in Runs, SolveCommit(r)
    PROVE  IInv'
<1> DEFINE cands == runs[r].accepted
           Born(c) == NewPlan(c.content, IF c.passed THEN "SENTINEL_PASSED" ELSE "DRAFT",
                              IF c.passed THEN c.content ELSE None, None, None)
<1>1. UNCHANGED <<acks, outbox, keys, incidents, req, bridge, effects>>
    BY DEF SolveCommit
<1>2. PICK new \in SUBSET UnusedPlans : \E of \in [new -> cands] :
        plans' = [p \in Plans |-> IF p \in new THEN Born(of[p]) ELSE plans[p]]
    BY DEF SolveCommit
<1>3. PICK of \in [new -> cands] :
        plans' = [p \in Plans |-> IF p \in new THEN Born(of[p]) ELSE plans[p]]
    BY <1>2
<1>4. cands \subseteq [content: Content, passed: BOOLEAN]
    BY DEF IInv, TypeOK, Run
<1>5. \A p \in new : Born(of[p]) \in Plan /\ Fit(Born(of[p]), p)
  <2> TAKE p \in new
  <2>1. of[p] \in [content: Content, passed: BOOLEAN]
    BY <1>4
  <2> QED
    BY <2>1, NewRow
<1>6. new \subseteq Plans /\ \A p \in new : plans[p] = None
    BY DEF UnusedPlans
<1> HIDE DEF cands, Born
<1>7. plans \in [Plans -> Plan \cup {None}] /\ None \notin Plan
    BY StoreAssumption DEF IInv, TypeOK
<1>8. plans' \in [Plans -> Plan \cup {None}]
    BY <1>3, <1>5, <1>7
<1>9. Kept /\ Backed'
  <2>1. \A p \in Plans :
             \/ plans'[p] = plans[p]
             \/ /\ plans'[p] # None
                /\ Fit(plans'[p], p)
                /\ plans[p] # None => Follows(plans'[p], plans[p])
    BY <1>3, <1>5, <1>6, <1>7
  <2> QED
    BY <1>1, <2>1, ManyRows
<1>10. demand' \in [Demands -> DemandStatus]
  <2>1. {"SENTINEL_PASSED", "SCHEDULED_DRAFT"} \subseteq DemandStatus
    BY DEF DemandStatus
  <2> QED
    BY <2>1 DEF SolveCommit, IInv, TypeOK
<1>11. vetted' \subseteq Content
  <2>1. vetted' = vetted \cup {c.content : c \in cands}
    BY DEF SolveCommit, cands
  <2> QED
    BY <1>4, <2>1 DEF IInv, TypeOK
<1>12. runs' \in [Runs -> Run]
    BY RunType DEF SolveCommit
<1>13. TypeOK'
    BY <1>1, <1>8, <1>10, <1>11, <1>12 DEF IInv, TypeOK
<1> QED
    BY <1>1, <1>9, <1>13, CommitStep
----------------------------------------------------------------------------
\* The revocation writes a status that asks for nothing over plans that were read.
LEMMA RevokedRows ==
    ASSUME IInv, NEW targets \in SUBSET Plans,
           \A p \in targets : plans[p] # None
    PROVE  /\ Revoked(targets) \in [Plans -> Plan \cup {None}]
           /\ \A p \in Plans :
                \/ Revoked(targets)[p] = plans[p]
                \/ /\ p \in targets
                   /\ Revoked(targets)[p] \in Plan
                   /\ Fit(Revoked(targets)[p], p)
                   /\ Follows(Revoked(targets)[p], plans[p])
<1>1. ASSUME NEW p \in targets
      PROVE  /\ Revoked(targets)[p] \in Plan
             /\ Fit(Revoked(targets)[p], p)
             /\ Follows(Revoked(targets)[p], plans[p])
  <2>1. plans[p] \in Plan
    BY PlanFields DEF IInv
  <2>2. plans[p].seal \in Content \cup {None}
    BY <2>1 DEF Plan
  <2> DEFINE row == [plans[p] EXCEPT !.status = "SUPERSEDED_EMERGENCY", !.seal = plans[p].seal]
  <2>3. row \in Plan /\ Follows(row, plans[p]) /\ Fit(row, p)
    BY <2>2, PlainStatus DEF PlanStatus, OnLineStatus
  <2>4. row = [plans[p] EXCEPT !.status = "SUPERSEDED_EMERGENCY"]
    BY <2>1 DEF Plan
  <2>5. Revoked(targets)[p] = row
    BY <2>4 DEF Revoked
  <2> HIDE DEF row
  <2> QED
    BY <2>3, <2>5
<1>2. ASSUME NEW p \in Plans \ targets
      PROVE  Revoked(targets)[p] = plans[p]
    BY DEF Revoked
<1>3. plans \in [Plans -> Plan \cup {None}]
    BY DEF IInv, TypeOK
<1>4. Revoked(targets) \in [Plans -> Plan \cup {None}]
  <2>1. \A p \in Plans : Revoked(targets)[p] \in Plan \cup {None}
    BY <1>1, <1>2, <1>3
  <2>2. Revoked(targets) = [p \in Plans |-> Revoked(targets)[p]]
    BY DEF Revoked
  <2> QED
    BY <2>1, <2>2
<1> QED
    BY <1>1, <1>2, <1>4

\* What both ends of a breakdown share.
LEMMA LogStep ==
    ASSUME IInv, NEW s \in Sessions, NEW i \in Incidents, Serving(s, "breakdown"),
           LogIncident(s, i), plans' \in [Plans -> Plan \cup {None}], Kept, Backed',
           demand' \in [Demands -> DemandStatus]
    PROVE  IInv'
<1>1. req[s] # None /\ req[s].op = "breakdown"
    BY DEF Serving
<1>2. /\ req[s].actor \in Users /\ req[s].key \in Keys
      /\ req[s].section \in Sections /\ req[s].into \in Incidents \cup {None}
    BY <1>1, ReqFields DEF IInv
<1>3. /\ RecordKey(req[s].key, "/emergency/breakdown", req[s].actor) /\ Finish(s)
      /\ incidents' = [incidents EXCEPT ![i] = [section |-> req[s].section,
                                                into |-> req[s].into, acked |-> FALSE]]
      /\ UNCHANGED <<acks, outbox, runs, bridge, vetted>>
    BY DEF LogIncident
<1>4. keys' \in [Keys -> KeyRow \cup {None}] /\ effects' \in [Keys -> Nat]
    BY <1>2, <1>3, KeyType DEF Endpoint, IInv
<1>5. /\ req' \in [Sessions -> Request \cup {None}]
      /\ \A t \in Sessions : req'[t] = req[t] \/ req'[t] = None
    BY <1>3, FinishType DEF IInv
<1>6. incidents' \in [Incidents -> Incident \cup {None}]
  <2>1. [section |-> req[s].section, into |-> req[s].into, acked |-> FALSE] \in Incident
    BY <1>2 DEF Incident
  <2> QED
    BY <1>3, <2>1 DEF IInv, TypeOK
<1>7. TypeOK'
    BY <1>3, <1>4, <1>5, <1>6 DEF TypeOK, IInv
<1> QED
    BY <1>3, <1>5, <1>7, CommitStep

\* The plans a breakdown read as active, at its commit.
LEMMA Targets ==
    ASSUME IInv, NEW s \in Sessions, Serving(s, "breakdown")
    PROVE  /\ req[s].targets \in SUBSET Plans
           /\ \A p \in req[s].targets : plans[p] # None
           /\ req[s].section \in Sections
<1>1. req[s] # None /\ req[s].op = "breakdown"
    BY DEF Serving
<1> QED
    BY <1>1, ReqFields DEF IInv, Vouched, VouchedReq

LEMMA BreakdownUnplannedStep ==
    ASSUME IInv, NEW s \in Sessions, BreakdownUnplanned(s)
    PROVE  IInv'
<1>1. PICK i \in Incidents : BreakdownWithoutPlan(s, i)
    BY DEF BreakdownUnplanned
<1>2. Serving(s, "breakdown") /\ plans' = Revoked(req[s].targets) /\ LogIncident(s, i)
    BY <1>1 DEF BreakdownWithoutPlan
<1>3. /\ plans' \in [Plans -> Plan \cup {None}]
      /\ \A p \in Plans : \/ plans'[p] = plans[p]
                          \/ plans'[p] \in Plan /\ Fit(plans'[p], p) /\ Follows(plans'[p], plans[p])
    BY <1>2, Targets, RevokedRows
<1>4. None \notin Plan /\ UNCHANGED outbox
    BY <1>2, StoreAssumption DEF LogIncident
<1>5. Kept /\ Backed'
    BY <1>3, <1>4, ManyRows
<1>6. demand' \in [Demands -> DemandStatus]
    BY <1>1, MoveType DEF BreakdownWithoutPlan, Released, IInv, TypeOK, DemandStatus
<1> QED
    BY <1>2, <1>3, <1>5, <1>6, LogStep

LEMMA BreakdownReplannedStep ==
    ASSUME IInv, NEW s \in Sessions, BreakdownReplanned(s)
    PROVE  IInv'
<1>1. PICK i \in Incidents, q \in Plans, c \in Offers : BreakdownCommit(s, i, q, c)
    BY DEF BreakdownReplanned
<1> DEFINE new == NewPlan(c, "PROVISIONAL", c, None, i)
           targets == req[s].targets
<1>2. /\ Serving(s, "breakdown") /\ LogIncident(s, i) /\ plans[q] = None
      /\ plans' = [Revoked(targets) EXCEPT ![q] = new]
    BY <1>1 DEF BreakdownCommit
<1>3. /\ Revoked(targets) \in [Plans -> Plan \cup {None}]
      /\ \A p \in Plans : \/ Revoked(targets)[p] = plans[p]
                          \/ /\ Revoked(targets)[p] \in Plan
                             /\ Fit(Revoked(targets)[p], p)
                             /\ Follows(Revoked(targets)[p], plans[p])
    BY <1>2, Targets, RevokedRows
<1>4. new \in Plan /\ Fit(new, q)
    BY NewRow, OffersAssumption
<1>5. None \notin Plan /\ UNCHANGED outbox
    BY <1>2, StoreAssumption DEF LogIncident
<1> HIDE DEF new, targets
<1>6. plans' \in [Plans -> Plan \cup {None}]
    BY <1>2, <1>3, <1>4
<1>7. \A p \in Plans : plans'[p] = IF p = q THEN new ELSE Revoked(targets)[p]
    BY <1>2, <1>3
<1>8. Kept /\ Backed'
  <2>1. \A p \in Plans :
             \/ plans'[p] = plans[p]
             \/ /\ plans'[p] # None
                /\ Fit(plans'[p], p)
                /\ plans[p] # None => Follows(plans'[p], plans[p])
    BY <1>2, <1>3, <1>4, <1>5, <1>7
  <2> QED
    BY <1>5, <2>1, ManyRows
<1>9. demand' \in [Demands -> DemandStatus]
  <2>1. Released(req[s].targets) \in [Demands -> DemandStatus]
    BY MoveType DEF Released, IInv, TypeOK, DemandStatus
  <2> QED
    BY <1>1, <2>1, MoveType DEF BreakdownCommit, DemandStatus
<1> QED
    BY <1>2, <1>6, <1>8, <1>9, LogStep
----------------------------------------------------------------------------
LEMMA InitInv == Init => IInv
<1> SUFFICES ASSUME Init PROVE IInv
    OBVIOUS
<1>1. TypeOK
    BY DEF Init, TypeOK, Run, DemandStatus
<1> QED
    BY <1>1 DEF Init, IInv, Backed, Vouched, Queued, InHand

LEMMA StepInv == IInv /\ [Next]_vars => IInv'
<1> SUFFICES ASSUME IInv, [Next]_vars PROVE IInv'
    OBVIOUS
<1>1. ASSUME NEW s \in Sessions, SessionStep(s) PROVE IInv'
    BY <1>1, DecideReadStep, ApproveStep, AuthorizeStep, RejectStep, AcknowledgeReadStep,
       AcknowledgeStep, ReviseReadStep, ReviseStep, TransmitReadStep, TransmitStep,
       MoveReadStep, MoveStep, BreakdownReadStep, BreakdownReplannedStep,
       BreakdownUnplannedStep, AbortStep
    DEF SessionStep
<1>2. ASSUME NEW r \in Runs, RunStep(r) PROVE IInv'
    BY <1>2, SolveStartStep, SolveNothingStep, SolveEscalateStep, SolveCommitStep DEF RunStep
<1>3. ASSUME BridgeStep PROVE IInv'
    BY <1>3, BridgeReadStep, BridgeRefuseStep, BridgeCommitStep, BridgeAbortStep DEF BridgeStep
<1>4. ASSUME UNCHANGED vars PROVE IInv'
    BY <1>4 DEF vars, IInv, TypeOK, Backed, Vouched, VouchedReq, Queued, Signed, Acked, InHand, Waiting
<1> QED
    BY <1>1, <1>2, <1>3, <1>4, RipenStep, AcknowledgeIncidentStep, IngestStep DEF Next

LEMMA Inductive == Spec => []IInv
BY InitInv, StepInv, PTL DEF Spec

\* Every table, request and history variable keeps the shape of the schema.
THEOREM LifecycleTypeOK == Spec => []TypeOK
<1>1. IInv => TypeOK
    BY DEF IInv
<1> QED
    BY <1>1, Inductive, PTL

----------------------------------------------------------------------------
(***************************************************************************)
(* What one step may do to one row of block_plans.  The other safety       *)
(* properties follow from it case by case; content, predecessor and        *)
(* incident of a row are written by its INSERT alone.                      *)
(***************************************************************************)
SameOrigin(row, old) ==
    /\ row.content = old.content
    /\ row.supersedes = old.supersedes
    /\ row.incident = old.incident

SameHands(row, old) == row.decidedBy = old.decidedBy /\ row.authorizedBy = old.authorizedBy

\* Some revision took the place of plan p.
RevisedNow(p) == \E q \in Plans : plans'[q] # None /\ plans'[q].supersedes = p

\* The decision of the request that session s serves.
SignedIn(s, row, old) ==
    /\ row.seal = old.seal /\ UNCHANGED outbox
    /\ Admissible(plans')
    /\ \/ /\ Serving(s, "approve") /\ row.status = "APPROVED_SR_DOM"
          /\ row.decidedBy # None /\ row.authorizedBy = old.authorizedBy
       \/ /\ Serving(s, "authorize") /\ row.status = "AUTHORIZED_DRM"
          /\ row.authorizedBy # None /\ row.decidedBy = old.decidedBy

\* The breakdown of session s commits, with a plan or without.
RevokesNow(s) == Serving(s, "breakdown") /\ (BreakdownUnplanned(s) \/ BreakdownReplanned(s))

\* The row leaves the chain: rejected or cancelled, revised, revoked.
Withdrawn(p, row, old) ==
    /\ \/ /\ row.status = "CANCELLED" /\ row.seal = old.seal
          /\ \E s \in Sessions :
                /\ Serving(s, "reject") \/ Serving(s, "cancel")
                /\ req[s].plan = p
       \/ /\ row.status = "SUPERSEDED" /\ row.seal = None
          /\ RevisedNow(p)
       \/ /\ row.status = "SUPERSEDED_EMERGENCY" /\ row.seal = old.seal
          /\ \E s \in Sessions : RevokesNow(s) /\ p \in req[s].targets
    /\ SameHands(row, old)

SealedNow(p) ==
    /\ plans[p].status = "DRAFT"
    /\ plans'[p].status = "SENTINEL_PASSED"
    /\ plans'[p].seal = plans[p].content
    /\ SameHands(plans'[p], plans[p])
    /\ acks'[p] = SignalRole

\* The row follows the field, on the request of session s.
MovedIn(s, row, old) ==
    /\ \/ Serving(s, "activate") /\ row.status = "ACTIVE_GRANTED"
       \/ Serving(s, "complete") /\ row.status = "COMPLETED_FITNESS"
       \/ Serving(s, "archive") /\ row.status = "ARCHIVED_SEALED"
    /\ row.seal = old.seal
    /\ SameHands(row, old)
    /\ Admissible(plans')

\* The row is acknowledged by COA through row o of the outbox.
GrantedBy(o, row, old) ==
    /\ BridgeCommit
    /\ Waiting(o) /\ AckedNow(o)
    /\ row.status = "TRANSMITTED_COA"
    /\ row.seal = old.seal
    /\ SameHands(row, old)
    /\ \/ bridge # None /\ bridge.first = o
       \/ old.status \in {"AUTHORIZED_DRM", "PROVISIONAL"}

Written(p) ==
    /\ SameOrigin(plans'[p], plans[p])
    /\ \/ \E s \in Sessions : req[s] # None /\ req[s].plan = p /\ SignedIn(s, plans'[p], plans[p])
       \/ \E s \in Sessions : req[s] # None /\ req[s].plan = p /\ MovedIn(s, plans'[p], plans[p])
       \/ \E o \in Rows : GrantedBy(o, plans'[p], plans[p]) /\ outbox[o].plan = p
       \/ Withdrawn(p, plans'[p], plans[p])
       \/ SealedNow(p)

NoHands(row) == row.decidedBy = None /\ row.authorizedBy = None

\* The solver proposed the content of the row and put it to the ten checks.
OfTheSolver(p) ==
    /\ plans'[p].supersedes = None
    /\ plans'[p].incident = None
    /\ plans'[p].content \in vetted'

BornSealed(p) ==
    /\ plans'[p].status = "SENTINEL_PASSED"
    /\ plans'[p].seal = plans'[p].content
    /\ OfTheSolver(p)
    /\ \E r \in Runs : \E c \in runs[r].accepted :
         runs[r].status = "RUNNING" /\ c.passed /\ c.content = plans'[p].content

\* A re-plan is the only row that its breakdown adds.
BornProvisional(p) ==
    /\ plans'[p].status = "PROVISIONAL"
    /\ plans'[p].supersedes = None
    /\ \E s \in Sessions, i \in Incidents :
         /\ Serving(s, "breakdown") /\ LogIncident(s, i)
         /\ plans'[p].incident = i
         /\ plans'[p].content.section \in Affected(req[s].section)
    /\ \A q \in Plans \ {p} : plans[q] = None => plans'[q] = None

Born(p) ==
    /\ NoHands(plans'[p])
    /\ \/ /\ plans'[p].status = "DRAFT" /\ plans'[p].seal = None
          /\ plans'[p].supersedes # None \/ OfTheSolver(p)
       \/ BornSealed(p)
       \/ BornProvisional(p)

RowSteps ==
    \A p \in Plans :
        \/ plans'[p] = plans[p]
        \/ plans[p] # None /\ plans'[p] # None /\ Written(p)
        \/ plans[p] = None /\ plans'[p] # None /\ Born(p)

\* One existing row is rewritten.
LEMMA OneWritten ==
    ASSUME IInv, NEW p \in Plans, plans[p] # None, NEW row \in Plan,
           plans' = [plans EXCEPT ![p] = row],
           SameOrigin(row, plans[p]),
           \/ \E s \in Sessions : req[s] # None /\ req[s].plan = p /\ SignedIn(s, row, plans[p])
           \/ \E s \in Sessions : req[s] # None /\ req[s].plan = p /\ MovedIn(s, row, plans[p])
           \/ Withdrawn(p, row, plans[p])
           \/ SealedNow(p)
    PROVE  RowSteps
<1>1. plans \in [Plans -> Plan \cup {None}] /\ None \notin Plan
    BY StoreAssumption DEF IInv, TypeOK
<1>2. \A q \in Plans : plans'[q] = IF q = p THEN row ELSE plans[q]
    BY <1>1
<1>3. plans'[p] = row /\ row # None
    BY <1>1, <1>2
<1>4. Written(p)
    BY <1>3 DEF Written
<1> QED
    BY <1>2, <1>3, <1>4 DEF RowSteps

LEMMA ApproveRow ==
    ASSUME IInv, NEW s \in Sessions, ApproveCommit(s)
    PROVE  RowSteps
<1> DEFINE p == req[s].plan
           row == [plans[p] EXCEPT !.status = "APPROVED_SR_DOM", !.decidedBy = req[s].actor]
<1>1. req[s] # None /\ req[s].op = "approve"
    BY DEF ApproveCommit, Serving
<1>2. p \in Plans /\ req[s].actor \in Users /\ plans[p] # None
    BY <1>1, ReqFields DEF IInv, PlanOps, Vouched, VouchedReq
<1>3. plans[p] \in Plan
    BY <1>2, PlanFields DEF IInv
<1>4. row \in Plan /\ SameOrigin(row, plans[p]) /\ SignedIn(s, row, plans[p])
  <2>1. req[s].actor # None /\ UNCHANGED outbox /\ Admissible(plans')
    BY <1>2, StoreAssumption DEF ApproveCommit, Decided
  <2> QED
    BY <1>1, <1>2, <1>3, <2>1 DEF Plan, PlanStatus, SameOrigin, SignedIn, Serving
<1>5. plans' = [plans EXCEPT ![p] = row]
    BY <1>2 DEF ApproveCommit, IInv, TypeOK
<1> HIDE DEF row
<1> QED
    BY <1>1, <1>2, <1>4, <1>5, OneWritten

LEMMA AuthorizeRow ==
    ASSUME IInv, NEW s \in Sessions, AuthorizeCommit(s)
    PROVE  RowSteps
<1> DEFINE p == req[s].plan
           row == [plans[p] EXCEPT !.status = "AUTHORIZED_DRM", !.authorizedBy = req[s].actor]
<1>1. req[s] # None /\ req[s].op = "authorize"
    BY DEF AuthorizeCommit, Serving
<1>2. p \in Plans /\ req[s].actor \in Users /\ plans[p] # None
    BY <1>1, ReqFields DEF IInv, PlanOps, Vouched, VouchedReq
<1>3. plans[p] \in Plan
    BY <1>2, PlanFields DEF IInv
<1>4. row \in Plan /\ SameOrigin(row, plans[p]) /\ SignedIn(s, row, plans[p])
  <2>1. req[s].actor # None /\ UNCHANGED outbox /\ Admissible(plans')
    BY <1>2, StoreAssumption DEF AuthorizeCommit, Decided
  <2> QED
    BY <1>1, <1>2, <1>3, <2>1 DEF Plan, PlanStatus, SameOrigin, SignedIn, Serving
<1>5. plans' = [plans EXCEPT ![p] = row]
    BY <1>2 DEF AuthorizeCommit, IInv, TypeOK
<1> HIDE DEF row
<1> QED
    BY <1>1, <1>2, <1>4, <1>5, OneWritten

LEMMA RejectRow ==
    ASSUME IInv, NEW s \in Sessions, RejectCommit(s)
    PROVE  RowSteps
<1> DEFINE p == req[s].plan
           row == [plans[p] EXCEPT !.status = "CANCELLED"]
<1>1. req[s] # None /\ req[s].op = "reject"
    BY DEF RejectCommit, Serving
<1>2. p \in Plans /\ plans[p] # None
    BY <1>1, ReqFields DEF IInv, PlanOps, Vouched, VouchedReq
<1>3. plans[p] \in Plan
    BY <1>2, PlanFields DEF IInv
<1>4. row \in Plan /\ SameOrigin(row, plans[p]) /\ Withdrawn(p, row, plans[p])
    BY <1>1, <1>3 DEF Plan, PlanStatus, SameOrigin, Withdrawn, SameHands, Serving
<1>5. plans' = [plans EXCEPT ![p] = row]
    BY <1>2 DEF RejectCommit, IInv, TypeOK
<1> HIDE DEF row
<1> QED
    BY <1>1, <1>2, <1>4, <1>5, OneWritten

LEMMA AcknowledgeRow ==
    ASSUME IInv, NEW s \in Sessions, AcknowledgeCommit(s)
    PROVE  RowSteps
<1> DEFINE p == req[s].plan
           row == [plans[p] EXCEPT !.status = "SENTINEL_PASSED", !.seal = plans[p].content]
           passes == req[s].draft /\ BothAcked(p, req[s].role)
<1>1. req[s] # None /\ req[s].op = "acknowledge-signal"
    BY DEF AcknowledgeCommit, Serving
<1>2. p \in Plans /\ plans[p] # None
    BY <1>1, ReqFields DEF IInv, PlanOps, Vouched, VouchedReq
<1>3. plans[p] \in Plan
    BY <1>2, PlanFields DEF IInv
<1>4. /\ acks' = [acks EXCEPT ![p] = @ \cup {req[s].role}]
      /\ plans' = IF passes /\ plans[p].status = "DRAFT"
                  THEN [plans EXCEPT ![p].status = "SENTINEL_PASSED", ![p].seal = plans[p].content]
                  ELSE plans
    BY DEF AcknowledgeCommit
<1>5. CASE ~(passes /\ plans[p].status = "DRAFT")
    BY <1>4, <1>5 DEF RowSteps
<1>6. CASE passes /\ plans[p].status = "DRAFT"
  <2>1. row \in Plan /\ SameOrigin(row, plans[p])
    BY <1>3 DEF Plan, PlanStatus, SameOrigin
  <2>2. plans' = [plans EXCEPT ![p] = row]
    BY <1>2, <1>4, <1>6 DEF IInv, TypeOK
  <2>3. plans'[p] = row
    BY <1>2, <2>2 DEF IInv, TypeOK
  <2>4. row.status = "SENTINEL_PASSED" /\ row.seal = plans[p].content /\ SameHands(row, plans[p])
    BY <1>3 DEF Plan, SameHands
  <2>5. acks'[p] = SignalRole
    BY <1>2, <1>4, <1>6 DEF BothAcked, IInv, TypeOK
  <2>6. SealedNow(p)
    BY <1>6, <2>3, <2>4, <2>5 DEF SealedNow
  <2> HIDE DEF row
  <2> QED
    BY <1>2, <2>1, <2>2, <2>6, OneWritten
<1> QED
    BY <1>5, <1>6

LEMMA MoveRow ==
    ASSUME IInv, NEW s \in Sessions, MoveCommitted(s)
    PROVE  RowSteps
<1>1. PICK m \in Moves : MoveCommit(s, m)
    BY DEF MoveCommitted
<1> DEFINE p == req[s].plan
           row == [plans[p] EXCEPT !.status = m.to]
<1>2. req[s] # None /\ req[s].op = m.op
    BY <1>1 DEF MoveCommit, Serving
<1>3. /\ m.op \in {"activate", "complete", "archive", "cancel"}
      /\ m.to \in PlanStatus
      /\ \/ m.op = "activate" /\ m.to = "ACTIVE_GRANTED"
         \/ m.op = "complete" /\ m.to = "COMPLETED_FITNESS"
         \/ m.op = "archive" /\ m.to = "ARCHIVED_SEALED"
         \/ m.op = "cancel" /\ m.to = "CANCELLED"
    BY DEF Moves, PlanStatus
<1>4. p \in Plans /\ plans[p] # None
    BY <1>2, <1>3, ReqFields DEF IInv, PlanOps, Vouched, VouchedReq
<1>5. plans[p] \in Plan
    BY <1>4, PlanFields DEF IInv
<1>6. /\ row \in Plan /\ SameOrigin(row, plans[p]) /\ row.status = m.to
      /\ row.seal = plans[p].seal /\ SameHands(row, plans[p])
    BY <1>3, <1>5 DEF Plan, SameOrigin, SameHands
<1>7. plans' = [plans EXCEPT ![p] = row] /\ Admissible(plans')
    BY <1>1, <1>4 DEF MoveCommit, IInv, TypeOK
<1> HIDE DEF row
<1>8. MovedIn(s, row, plans[p]) \/ Withdrawn(p, row, plans[p])
    BY <1>2, <1>3, <1>6, <1>7 DEF MovedIn, Withdrawn, Serving
<1> QED
    BY <1>2, <1>4, <1>6, <1>7, <1>8, OneWritten

LEMMA ReviseRow ==
    ASSUME IInv, NEW s \in Sessions, ReviseCommit(s)
    PROVE  RowSteps
<1> DEFINE p == req[s].plan
           row == [plans[p] EXCEPT !.status = "SUPERSEDED", !.seal = None]
           new == Revision(p, req[s].start, req[s].end)
<1>1. req[s] # None /\ req[s].op = "revise"
    BY DEF ReviseCommit, Serving
<1>2. p \in Plans /\ plans[p] # None
    BY <1>1, ReqFields DEF IInv, PlanOps, Vouched, VouchedReq
<1>3. plans[p] \in Plan /\ plans \in [Plans -> Plan \cup {None}] /\ None \notin Plan
    BY <1>2, PlanFields, StoreAssumption DEF IInv, TypeOK
<1>4. PICK q \in UnusedPlans :
        plans' = [plans EXCEPT ![q] = new, ![p].status = "SUPERSEDED", ![p].seal = None]
    BY DEF ReviseCommit
<1>5. q \in Plans /\ plans[q] = None /\ q # p
    BY <1>2, <1>4 DEF UnusedPlans
<1>6. /\ row \in Plan /\ SameOrigin(row, plans[p]) /\ SameHands(row, plans[p])
      /\ row.status = "SUPERSEDED" /\ row.seal = None
    BY <1>3 DEF Plan, PlanStatus, SameOrigin, SameHands
<1>7. NoHands(new) /\ new.status = "DRAFT" /\ new.seal = None /\ new.supersedes = p
    BY DEF Revision, NewPlan, NoHands
<1>8. new # None
  <2>1. req[s].start \in Times /\ req[s].end \in Times
    BY <1>1, ReqFields DEF IInv
  <2>2. plans[p].content \in Content /\ plans[p].incident \in Incidents \cup {None}
    BY <1>3 DEF Plan
  <2>3. [plans[p].content EXCEPT !.start = req[s].start, !.end = req[s].end] \in Content
    BY <2>1, <2>2 DEF Content
  <2>4. new \in Plan
    BY <1>2, <2>2, <2>3, NewRow DEF Revision
  <2> QED
    BY <1>3, <2>4
<1>9. plans'[q] = new /\ plans'[p] = row /\ \A t \in Plans \ {p, q} : plans'[t] = plans[t]
    BY <1>2, <1>3, <1>4, <1>5
<1> HIDE DEF row, new
<1>10. RevisedNow(p)
    BY <1>5, <1>7, <1>8, <1>9 DEF RevisedNow
<1>11. p # None
    BY <1>2, StoreAssumption
<1>12. Born(q) /\ Written(p)
    BY <1>6, <1>7, <1>9, <1>10, <1>11 DEF Born, Written, Withdrawn
<1> QED
    BY <1>2, <1>3, <1>5, <1>6, <1>8, <1>9, <1>12 DEF RowSteps

\* An answered row is acknowledged now.
LEMMA AnsweredRow ==
    ASSUME TypeOK, NEW o \in Rows, Waiting(o), outbox'[o] = [outbox[o] EXCEPT !.state = "ACKED"]
    PROVE  AckedNow(o)
<1>1. outbox[o] \in OutboxRow /\ None \notin OutboxRow
    BY StoreAssumption DEF TypeOK, Waiting
<1>2. outbox'[o] \in OutboxRow /\ outbox'[o].state = "ACKED"
    BY <1>1 DEF OutboxRow
<1> QED
    BY <1>1, <1>2 DEF AckedNow, Waiting

\* The rows an iteration answers: the first one on the status read before it held the
\* ledger lock, the others on the status at its commit.
LEMMA BridgeRow ==
    ASSUME IInv, BridgeCommit
    PROVE  RowSteps
<1>1. bridge # None /\ bridge.first # None
    BY DEF BridgeCommit
<1>2. PICK granted \in Answers :
        /\ outbox' = [o \in Rows |->
                        IF o \in granted THEN [outbox[o] EXCEPT !.state = "ACKED"]
                        ELSE IF o \in bridge.refused \cup bridge.rest
                        THEN [outbox[o] EXCEPT !.attempts = @ + 1]
                        ELSE outbox[o]]
        /\ plans' = [p \in Plans |-> IF p \in {outbox[o].plan : o \in granted}
                                     THEN [plans[p] EXCEPT !.status = "TRANSMITTED_COA"]
                                     ELSE plans[p]]
    BY DEF BridgeCommit
<1>3. bridge \in Iteration
    BY <1>1 DEF IInv, TypeOK
<1>4. \A o \in granted : o = bridge.first \/ (o \in bridge.rest /\ Allowed(outbox[o].plan))
    BY DEF Answers
<1>5. \A o \in granted : o \in Rows /\ Waiting(o)
    BY <1>1, <1>3, <1>4 DEF IInv, InHand, Iteration
<1>6. SUFFICES ASSUME NEW p \in Plans, p \in {outbox[o].plan : o \in granted}
               PROVE  plans[p] # None /\ plans'[p] # None /\ Written(p)
    BY <1>2 DEF RowSteps
<1>7. PICK o \in granted : p = outbox[o].plan
    BY <1>6
<1>8. o \in Rows /\ Waiting(o) /\ outbox[o] # None
    BY <1>5, <1>7 DEF Waiting
<1>9. plans[p] # None
    BY <1>7, <1>8 DEF IInv, Queued
<1>10. plans[p] \in Plan /\ None \notin Plan
    BY <1>9, PlanFields, StoreAssumption DEF IInv
<1>11. plans'[p] = [plans[p] EXCEPT !.status = "TRANSMITTED_COA"]
    BY <1>2, <1>6
<1>12. /\ plans'[p] \in Plan /\ SameOrigin(plans'[p], plans[p])
       /\ plans'[p].status = "TRANSMITTED_COA" /\ plans'[p].seal = plans[p].seal
       /\ SameHands(plans'[p], plans[p])
    BY <1>10, <1>11 DEF Plan, PlanStatus, SameOrigin, SameHands
<1>13. o = bridge.first \/ plans[p].status \in {"AUTHORIZED_DRM", "PROVISIONAL"}
    BY <1>4, <1>7 DEF Allowed
<1>14. AckedNow(o)
    BY <1>2, <1>7, <1>8, AnsweredRow DEF IInv
<1>15. GrantedBy(o, plans'[p], plans[p])
    BY <1>1, <1>8, <1>12, <1>13, <1>14 DEF GrantedBy
<1> QED
    BY <1>7, <1>8, <1>9, <1>10, <1>12, <1>15 DEF Written

LEMMA SolveRow ==
    ASSUME IInv, NEW r \in Runs, SolveCommit(r)
    PROVE  RowSteps
<1> DEFINE cands == runs[r].accepted
           BornAs(c) == NewPlan(c.content, IF c.passed THEN "SENTINEL_PASSED" ELSE "DRAFT",
                                IF c.passed THEN c.content ELSE None, None, None)
<1>0. cands \subseteq [content: Content, passed: BOOLEAN] /\ \A c \in cands : c.content \in vetted'
    BY DEF SolveCommit, IInv, TypeOK, Run
<1>1. PICK new \in SUBSET UnusedPlans : \E of \in [new -> cands] :
        plans' = [p \in Plans |-> IF p \in new THEN BornAs(of[p]) ELSE plans[p]]
    BY DEF SolveCommit
<1>2. PICK of \in [new -> cands] :
        plans' = [p \in Plans |-> IF p \in new THEN BornAs(of[p]) ELSE plans[p]]
    BY <1>1
<1>3. runs[r].status = "RUNNING" /\ cands \subseteq [content: Content, passed: BOOLEAN]
    BY DEF SolveCommit, IInv, TypeOK, Run
<1>4. SUFFICES ASSUME NEW p \in new
               PROVE  plans[p] = None /\ plans'[p] # None /\ Born(p)
    BY <1>2 DEF RowSteps
<1>5. p \in Plans /\ plans[p] = None
    BY <1>4 DEF UnusedPlans
<1>6. PICK c \in cands : plans'[p] = BornAs(c)
    BY <1>2, <1>4, <1>5
<1>7. c \in [content: Content, passed: BOOLEAN]
    BY <1>3, <1>6
<1>8. plans'[p] # None
  <2>1. BornAs(c) \in Plan
    BY <1>7, NewRow
  <2> QED
    BY <1>6, <2>1, StoreAssumption
<1>9. NoHands(plans'[p])
    BY <1>6 DEF NoHands, NewPlan
<1>10. CASE c.passed
  <2>1. /\ plans'[p].status = "SENTINEL_PASSED" /\ plans'[p].supersedes = None
        /\ plans'[p].incident = None
        /\ plans'[p].content = c.content /\ plans'[p].seal = c.content
    BY <1>6, <1>10 DEF NewPlan
  <2>2. BornSealed(p)
    BY <1>0, <1>3, <1>6, <1>10, <2>1 DEF BornSealed, OfTheSolver
  <2> QED
    BY <1>5, <1>8, <1>9, <2>2 DEF Born
<1>11. CASE ~c.passed
  <2>1. /\ plans'[p].status = "DRAFT" /\ plans'[p].seal = None /\ plans'[p].supersedes = None
        /\ plans'[p].incident = None /\ plans'[p].content = c.content
    BY <1>6, <1>11 DEF NewPlan
  <2> QED
    BY <1>0, <1>5, <1>6, <1>8, <1>9, <2>1 DEF Born, OfTheSolver
<1> QED
    BY <1>10, <1>11

\* A revocation withdraws the plans that were read as active.
LEMMA RevokedRow ==
    ASSUME IInv, NEW s \in Sessions, RevokesNow(s), NEW p \in Plans
    PROVE  LET after == Revoked(req[s].targets)
           IN  \/ after[p] = plans[p]
               \/ /\ plans[p] # None /\ after[p] # None
                  /\ SameOrigin(after[p], plans[p])
                  /\ Withdrawn(p, after[p], plans[p])
<1> DEFINE targets == req[s].targets
<1>0. \A q \in targets : plans[q] # None
    BY Targets DEF RevokesNow
<1>1. CASE p \in targets
  <2>1. plans[p] \in Plan /\ None \notin Plan
    BY <1>0, <1>1, PlanFields, StoreAssumption DEF IInv
  <2>2. Revoked(targets)[p] = [plans[p] EXCEPT !.status = "SUPERSEDED_EMERGENCY"]
    BY <1>1 DEF Revoked
  <2>3. /\ Revoked(targets)[p] \in Plan
        /\ SameOrigin(Revoked(targets)[p], plans[p])
        /\ Withdrawn(p, Revoked(targets)[p], plans[p])
    BY <1>1, <2>1, <2>2 DEF Plan, PlanStatus, SameOrigin, Withdrawn, SameHands
  <2> QED
    BY <1>0, <1>1, <2>1, <2>3
<1> QED
    BY <1>1 DEF Revoked

LEMMA UnplannedRow ==
    ASSUME IInv, NEW s \in Sessions, BreakdownUnplanned(s)
    PROVE  RowSteps
<1>1. PICK i \in Incidents : BreakdownWithoutPlan(s, i)
    BY DEF BreakdownUnplanned
<1>2. RevokesNow(s) /\ plans' = Revoked(req[s].targets)
    BY <1>1 DEF BreakdownWithoutPlan, RevokesNow
<1> QED
    BY <1>2, RevokedRow DEF RowSteps, Written

LEMMA ReplannedRow ==
    ASSUME IInv, NEW s \in Sessions, BreakdownReplanned(s)
    PROVE  RowSteps
<1>1. PICK i \in Incidents, q \in Plans, c \in Offers : BreakdownCommit(s, i, q, c)
    BY DEF BreakdownReplanned
<1> DEFINE new == NewPlan(c, "PROVISIONAL", c, None, i)
           after == Revoked(req[s].targets)
<1>2. /\ RevokesNow(s) /\ LogIncident(s, i) /\ plans[q] = None
      /\ c.section \in Affected(req[s].section)
      /\ plans' = [after EXCEPT ![q] = new]
    BY <1>1 DEF BreakdownCommit, RevokesNow
<1>3. \A p \in Plans : \/ after[p] = plans[p]
                       \/ /\ plans[p] # None /\ after[p] # None
                          /\ SameOrigin(after[p], plans[p])
                          /\ Withdrawn(p, after[p], plans[p])
    BY <1>2, RevokedRow
<1>4. \A p \in Plans : plans'[p] = IF p = q THEN new ELSE after[p]
    BY <1>2 DEF Revoked
<1>5. new \in Plan
    BY NewRow, OffersAssumption
<1>6. /\ NoHands(new) /\ new.status = "PROVISIONAL" /\ new.supersedes = None
      /\ new.incident = i /\ new.content = c
    BY DEF NewPlan, NoHands
<1> HIDE DEF new, after
<1>7. \A p \in Plans \ {q} : plans[p] = None => plans'[p] = None
    BY <1>3, <1>4
<1>8. BornProvisional(q)
    BY <1>2, <1>4, <1>6, <1>7 DEF BornProvisional, RevokesNow
<1>9. Born(q) /\ plans'[q] # None
    BY <1>4, <1>5, <1>6, <1>8, StoreAssumption DEF Born
<1> QED
    BY <1>2, <1>3, <1>4, <1>9 DEF RowSteps, Written

\* The actions that leave the plans alone.
LEMMA PlansAlone ==
    ASSUME NEW s \in Sessions,
           \/ DecideRequest(s) \/ AcknowledgeRequest(s) \/ ReviseRequest(s)
           \/ TransmitRequest(s) \/ TransmitCommit(s)
           \/ MoveRequest(s) \/ BreakdownRequest(s) \/ Abort(s)
    PROVE  UNCHANGED <<plans, acks, keys, effects, incidents, runs>>
BY DEF DecideRequest, DecideRead, AcknowledgeRequest, AcknowledgeRead, ReviseRequest, ReviseRead,
       TransmitRequest, TransmitRead, TransmitCommit, MoveRequest, MoveRead,
       BreakdownRequest, BreakdownRead, Abort, tables

LEMMA RowStepsOf ==
    ASSUME IInv, [Next]_vars
    PROVE  RowSteps
<1>1. ASSUME UNCHANGED plans PROVE RowSteps
    BY <1>1 DEF RowSteps
<1>2. ASSUME NEW s \in Sessions, SessionStep(s) PROVE RowSteps
    BY <1>1, <1>2, PlansAlone, ApproveRow, AuthorizeRow, RejectRow, AcknowledgeRow, ReviseRow,
       MoveRow, ReplannedRow, UnplannedRow
    DEF SessionStep
<1>3. ASSUME NEW r \in Runs, RunStep(r) PROVE RowSteps
    BY <1>1, <1>3, SolveRow DEF RunStep, SolveStart, SolveNothing, SolveEscalate
<1>4. ASSUME BridgeStep PROVE RowSteps
    BY <1>1, <1>4, BridgeRow DEF BridgeStep, BridgeRead, BridgeRefuse, BridgeAbort, tables
<1>5. ASSUME \/ \E o \in Rows : Ripen(o)
             \/ \E i \in Incidents : AcknowledgeIncident(i)
             \/ \E d \in Demands : Ingest(d)
             \/ UNCHANGED vars
      PROVE  RowSteps
    BY <1>1, <1>5 DEF Ripen, AcknowledgeIncident, Ingest, vars
<1> QED
    BY <1>2, <1>3, <1>4, <1>5 DEF Next
----------------------------------------------------------------------------
(***************************************************************************)
(* What one step may do to the other tables and to the requests.           *)
(***************************************************************************)
ReadIn(s) ==
    \/ DecideRequest(s) \/ AcknowledgeRequest(s) \/ ReviseRequest(s)
    \/ TransmitRequest(s) \/ MoveRequest(s) \/ BreakdownRequest(s)

\* A request that is read touches its own session alone.
LEMMA ReadAlone ==
    ASSUME TypeOK, NEW s \in Sessions, ReadIn(s)
    PROVE  UNCHANGED <<tables, bridge>> /\ \A t \in Sessions : t # s => req'[t] = req[t]
BY DEF ReadIn, DecideRequest, DecideRead, AcknowledgeRequest, AcknowledgeRead, ReviseRequest,
       ReviseRead, TransmitRequest, TransmitRead, MoveRequest, MoveRead,
       BreakdownRequest, BreakdownRead, Begin, TypeOK

ReqSteps ==
    \A s \in Sessions : req'[s] = req[s] \/ req'[s] = None \/ ReadIn(s)

AckSteps ==
    \A p \in Plans :
        \/ acks'[p] = acks[p]
        \/ \E s \in Sessions : AcknowledgeCommit(s) /\ req[s].plan = p

IncidentSteps ==
    \A i \in Incidents :
        \/ incidents'[i] = incidents[i]
        \/ /\ incidents[i] # None /\ incidents'[i] # None
           /\ incidents'[i].section = incidents[i].section
           /\ incidents'[i].into = incidents[i].into
        \/ \E s \in Sessions : Serving(s, "breakdown") /\ LogIncident(s, i)

KeySteps ==
    \/ UNCHANGED <<keys, effects>>
    \/ \E k \in Keys, e \in Endpoint, u \in Users : RecordKey(k, e, u)

OutboxSteps ==
    \A o \in Rows :
        \/ outbox'[o] = outbox[o]
        \/ /\ outbox[o] # None /\ outbox'[o] # None
           /\ outbox'[o].plan = outbox[o].plan
           /\ outbox[o].state = "ACKED" => outbox'[o].state = "ACKED"
        \/ /\ outbox[o] = None /\ outbox'[o] # None
           /\ outbox'[o].state = "PENDING"
           /\ \E s \in Sessions : TransmitCommit(s) /\ req[s].plan = outbox'[o].plan

RunSteps ==
    \A r \in Runs : runs'[r] = runs[r] \/ runs'[r].status # "RUNNING" \/ SolveStart(r)

TableSteps == ReqSteps /\ AckSteps /\ IncidentSteps /\ KeySteps /\ OutboxSteps /\ RunSteps

\* A step that changes none of these tables.
LEMMA TablesAlone ==
    ASSUME TypeOK, UNCHANGED <<acks, incidents, keys, effects, outbox, runs>>, ReqSteps
    PROVE  TableSteps
BY DEF TableSteps, AckSteps, IncidentSteps, KeySteps, OutboxSteps, RunSteps

\* A request that ends.
LEMMA Ended ==
    ASSUME TypeOK, NEW s \in Sessions, Finish(s)
    PROVE  ReqSteps
BY FinishType DEF ReqSteps

LEMMA ReadTables ==
    ASSUME TypeOK, NEW s \in Sessions, ReadIn(s)
    PROVE  TableSteps
<1>1. UNCHANGED <<acks, incidents, keys, effects, outbox, runs>> /\ ReqSteps
    BY ReadAlone DEF ReqSteps, tables
<1> QED
    BY <1>1, TablesAlone

LEMMA DecidedTables ==
    ASSUME TypeOK, NEW s \in Sessions, Decided(s),
           req[s] # None, req[s].op \in {"approve", "authorize", "reject"}
    PROVE  TableSteps
<1>1. /\ RecordKey(req[s].key, "/approvals/decide", req[s].actor) /\ Finish(s)
      /\ UNCHANGED <<acks, outbox, incidents, runs, bridge, vetted>>
    BY DEF Decided
<1>2. req[s].key \in Keys /\ req[s].actor \in Users
    BY ReqFields
<1>3. KeySteps
    BY <1>1, <1>2 DEF KeySteps, Endpoint
<1> QED
    BY <1>1, <1>3, Ended DEF TableSteps, AckSteps, IncidentSteps, OutboxSteps, RunSteps

LEMMA AcknowledgeTables ==
    ASSUME TypeOK, NEW s \in Sessions, AcknowledgeCommit(s)
    PROVE  TableSteps
<1>1. /\ acks' = [acks EXCEPT ![req[s].plan] = @ \cup {req[s].role}] /\ Finish(s)
      /\ UNCHANGED <<outbox, keys, incidents, runs, bridge, vetted, effects>>
    BY DEF AcknowledgeCommit
<1>2. AckSteps
    BY <1>1 DEF AckSteps, TypeOK
<1> QED
    BY <1>1, <1>2, Ended DEF TableSteps, KeySteps, IncidentSteps, OutboxSteps, RunSteps

LEMMA TransmitTables ==
    ASSUME TypeOK, NEW s \in Sessions, TransmitCommit(s)
    PROVE  TableSteps
<1>1. PICK o \in Rows :
        /\ outbox[o] = None
        /\ outbox' = [outbox EXCEPT ![o] = [plan |-> req[s].plan, state |-> "PENDING",
                                            attempts |-> 0, due |-> FALSE]]
    BY DEF TransmitCommit
<1>2. Finish(s) /\ UNCHANGED <<plans, demand, acks, keys, incidents, runs, bridge, vetted, effects>>
    BY DEF TransmitCommit
<1>3. OutboxSteps
  <2>1. req[s] # None /\ req[s].op = "transmit"
    BY DEF TransmitCommit, Serving
  <2>2. [plan |-> req[s].plan, state |-> "PENDING", attempts |-> 0, due |-> FALSE] \in OutboxRow
    BY <2>1, ReqFields DEF OutboxRow, PlanOps
  <2>3. outbox'[o] # None /\ outbox'[o].state = "PENDING" /\ outbox'[o].plan = req[s].plan
    BY <1>1, <2>2, StoreAssumption DEF TypeOK
  <2> QED
    BY <1>1, <2>3 DEF OutboxSteps, TypeOK
<1> QED
    BY <1>2, <1>3, Ended DEF TableSteps, KeySteps, IncidentSteps, AckSteps, RunSteps

LEMMA BreakdownTables ==
    ASSUME TypeOK, NEW s \in Sessions, NEW i \in Incidents, Serving(s, "breakdown"), LogIncident(s, i)
    PROVE  TableSteps
<1>1. /\ RecordKey(req[s].key, "/emergency/breakdown", req[s].actor) /\ Finish(s)
      /\ incidents' = [incidents EXCEPT ![i] = [section |-> req[s].section,
                                                into |-> req[s].into, acked |-> FALSE]]
      /\ UNCHANGED <<acks, outbox, runs, bridge, vetted>>
    BY DEF LogIncident
<1>2. req[s].key \in Keys /\ req[s].actor \in Users
    BY ReqFields DEF Serving
<1>3. KeySteps
    BY <1>1, <1>2 DEF KeySteps, Endpoint
<1>4. IncidentSteps
    BY <1>1 DEF IncidentSteps, TypeOK
<1> QED
    BY <1>1, <1>3, <1>4, Ended DEF TableSteps, AckSteps, OutboxSteps, RunSteps

LEMMA SessionTables ==
    ASSUME TypeOK, NEW s \in Sessions, SessionStep(s)
    PROVE  TableSteps
<1>1. ASSUME ApproveCommit(s) \/ AuthorizeCommit(s) \/ RejectCommit(s) PROVE TableSteps
    BY <1>1, DecidedTables DEF ApproveCommit, AuthorizeCommit, RejectCommit, Serving
<1>2. ASSUME BreakdownReplanned(s) \/ BreakdownUnplanned(s) PROVE TableSteps
    BY <1>2, BreakdownTables DEF BreakdownReplanned, BreakdownUnplanned, BreakdownCommit,
                                BreakdownWithoutPlan
<1>3. ASSUME ReviseCommit(s) \/ MoveCommitted(s) \/ Abort(s) PROVE TableSteps
    BY <1>3, Ended, TablesAlone DEF ReviseCommit, MoveCommitted, MoveCommit, Abort, tables
<1> QED
    BY <1>1, <1>2, <1>3, ReadTables, AcknowledgeTables, TransmitTables DEF SessionStep, ReadIn

LEMMA RunTables ==
    ASSUME TypeOK, NEW r \in Runs, RunStep(r)
    PROVE  TableSteps
<1>1. UNCHANGED <<acks, outbox, keys, incidents, req, bridge, effects>>
    BY DEF RunStep, SolveStart, SolveNothing, SolveEscalate, SolveCommit
<1>2. \A t \in Runs : t # r => runs'[t] = runs[t]
    BY DEF RunStep, SolveStart, SolveNothing, SolveEscalate, SolveCommit, TypeOK
<1>3. SolveStart(r) \/ runs'[r].status # "RUNNING"
    BY DEF RunStep, SolveNothing, SolveEscalate, SolveCommit, TypeOK, Run
<1> QED
    BY <1>1, <1>2, <1>3 DEF TableSteps, ReqSteps, AckSteps, IncidentSteps, KeySteps, OutboxSteps, RunSteps

LEMMA BridgeTables ==
    ASSUME IInv, BridgeStep
    PROVE  TableSteps
<1>1. UNCHANGED <<acks, keys, incidents, runs, req, effects>>
    BY DEF BridgeStep, BridgeRead, BridgeRefuse, BridgeCommit, BridgeAbort, tables
<1>2. OutboxSteps
  <2>1. ASSUME UNCHANGED outbox PROVE OutboxSteps
    BY <2>1 DEF OutboxSteps
  <2>2. ASSUME BridgeCommit \/ BridgeRefuse, NEW o \in Rows, outbox'[o] # outbox[o]
        PROVE  /\ outbox[o] # None /\ outbox'[o] # None
               /\ outbox'[o].plan = outbox[o].plan
               /\ outbox[o].state = "ACKED" => outbox'[o].state = "ACKED"
    <3>1. bridge # None /\ bridge \in Iteration
      BY <2>2 DEF BridgeCommit, BridgeRefuse, IInv, TypeOK
    <3>2. \/ outbox'[o] = [outbox[o] EXCEPT !.attempts = outbox[o].attempts + 1]
             /\ o \in bridge.refused \cup bridge.rest
          \/ BridgeCommit /\ bridge.first # None /\ o \in {bridge.first} \cup bridge.rest
             /\ outbox'[o] = [outbox[o] EXCEPT !.state = "ACKED"]
      BY <2>2 DEF BridgeCommit, BridgeRefuse, Answers
    <3>3. Waiting(o)
      BY <3>1, <3>2 DEF IInv, InHand
    <3>4. outbox[o] \in OutboxRow /\ None \notin OutboxRow
      BY <3>3, StoreAssumption DEF IInv, TypeOK, Waiting
    <3>5. outbox[o].attempts + 1 \in 0..3
      <4>1. outbox[o].attempts \in 0..3 /\ outbox[o].attempts < 3
        BY <3>3, <3>4 DEF Waiting, OutboxRow
      <4> QED
        BY <4>1
    <3>6. outbox'[o] \in OutboxRow /\ outbox'[o].plan = outbox[o].plan
      BY <3>2, <3>4, <3>5 DEF OutboxRow
    <3> QED
      BY <3>3, <3>4, <3>6 DEF Waiting
  <2>3. ASSUME BridgeCommit \/ BridgeRefuse PROVE OutboxSteps
    BY <2>2, <2>3 DEF OutboxSteps
  <2> QED
    BY <2>1, <2>3 DEF BridgeStep, BridgeRead, BridgeAbort, tables
<1> QED
    BY <1>1, <1>2 DEF TableSteps, ReqSteps, AckSteps, IncidentSteps, KeySteps, RunSteps

LEMMA TableStepsOf ==
    ASSUME IInv, [Next]_vars
    PROVE  TableSteps
<1>1. ASSUME NEW o \in Rows, Ripen(o) PROVE TableSteps
  <2>1. UNCHANGED <<acks, keys, incidents, runs, req, effects>>
    BY <1>1 DEF Ripen
  <2>2. outbox[o] \in OutboxRow /\ outbox' = [outbox EXCEPT ![o].due = TRUE] /\ None \notin OutboxRow
    BY <1>1, StoreAssumption DEF Ripen, IInv, TypeOK
  <2>3. /\ outbox[o] # None /\ outbox'[o] \in OutboxRow
        /\ outbox'[o].plan = outbox[o].plan /\ outbox'[o].state = outbox[o].state
    BY <1>1, <2>2 DEF Ripen, OutboxRow, IInv, TypeOK
  <2>4. OutboxSteps
    BY <2>2, <2>3 DEF OutboxSteps, IInv, TypeOK
  <2> QED
    BY <2>1, <2>4 DEF TableSteps, ReqSteps, AckSteps, IncidentSteps, KeySteps, RunSteps
<1>2. ASSUME NEW i \in Incidents, AcknowledgeIncident(i) PROVE TableSteps
  <2>1. UNCHANGED <<acks, outbox, keys, runs, req, effects>>
    BY <1>2 DEF AcknowledgeIncident
  <2>2. incidents[i] \in Incident /\ incidents' = [incidents EXCEPT ![i].acked = TRUE]
    BY <1>2 DEF AcknowledgeIncident, IInv, TypeOK
  <2>3. /\ incidents'[i] \in Incident
        /\ incidents'[i].section = incidents[i].section /\ incidents'[i].into = incidents[i].into
    BY <2>2 DEF Incident, IInv, TypeOK
  <2>4. incidents[i] # None /\ incidents'[i] # None
    BY <2>2, <2>3, StoreAssumption
  <2>5. IncidentSteps
    BY <2>2, <2>3, <2>4 DEF IncidentSteps, IInv, TypeOK
  <2> QED
    BY <2>1, <2>5 DEF TableSteps, ReqSteps, AckSteps, OutboxSteps, KeySteps, RunSteps
<1>3. ASSUME (\E d \in Demands : Ingest(d)) \/ UNCHANGED vars PROVE TableSteps
    BY <1>3, TablesAlone DEF Ingest, vars, ReqSteps, IInv
<1> QED
    BY <1>1, <1>2, <1>3, SessionTables, RunTables, BridgeTables DEF Next, IInv

\* What every step keeps of a plan, its acknowledgments and the incidents.
Lasting ==
    /\ \A p \in Plans :
         plans[p] # None =>
         /\ plans'[p] # None
         /\ plans'[p].content = plans[p].content
         /\ plans'[p].supersedes = plans[p].supersedes
         /\ plans[p].status # "DRAFT" => plans'[p].status # "DRAFT"
    /\ \A p \in Plans : acks[p] \subseteq acks'[p]
    /\ \A i \in Incidents :
         incidents[i] # None =>
         /\ incidents'[i] # None
         /\ incidents'[i].section = incidents[i].section
         /\ incidents'[i].into = incidents[i].into

LEMMA Lasts ==
    ASSUME IInv, [Next]_vars
    PROVE  Lasting
<1>1. RowSteps /\ AckSteps /\ IncidentSteps
    BY RowStepsOf, TableStepsOf DEF TableSteps
<1>2. \A p \in Plans :
         plans[p] # None =>
         /\ plans'[p] # None
         /\ plans'[p].content = plans[p].content
         /\ plans'[p].supersedes = plans[p].supersedes
         /\ plans[p].status # "DRAFT" => plans'[p].status # "DRAFT"
    BY <1>1 DEF RowSteps, Written, SameOrigin, SignedIn, MovedIn, GrantedBy, Withdrawn, SealedNow
<1>3. \A p \in Plans : acks[p] \subseteq acks'[p]
  <2> SUFFICES ASSUME NEW p \in Plans, NEW s \in Sessions, AcknowledgeCommit(s), req[s].plan = p
               PROVE  acks[p] \subseteq acks'[p]
    BY <1>1 DEF AckSteps
  <2> QED
    BY DEF AcknowledgeCommit, IInv, TypeOK
<1>4. \A i \in Incidents :
         incidents[i] # None =>
         /\ incidents'[i] # None
         /\ incidents'[i].section = incidents[i].section
         /\ incidents'[i].into = incidents[i].into
    BY <1>1 DEF IncidentSteps, LogIncident
<1> QED
    BY <1>2, <1>3, <1>4 DEF Lasting
----------------------------------------------------------------------------
(***************************************************************************)
(* The demands.  A handler moves them in an UPDATE of its own, from the    *)
(* plan as it is at the commit: a demand enters a released status in the   *)
(* same step as a block it is planned in.                                  *)
(***************************************************************************)
ReleasedStatus == OnLineStatus \cup {"AUTHORIZED_DRM"}

DemandSteps ==
    \A d \in Demands :
        \/ demand'[d] = demand[d]
        \/ demand'[d] \notin ReleasedStatus
        \/ \E p \in BlocksOf(d) : plans'[p].status = demand'[d]

\* The UPDATE moves its own demands, and all of them to one status.
LEMMA MovedTo ==
    ASSUME NEW table, NEW ds, NEW from, NEW to, NEW d \in Demands
    PROVE  \/ MoveDemands(table, ds, from, to)[d] = table[d]
           \/ d \in ds /\ MoveDemands(table, ds, from, to)[d] = to
BY DEF MoveDemands

\* An UPDATE to a status that releases nothing.
LEMMA MovedBack ==
    ASSUME NEW ds, NEW from, NEW to, to \notin ReleasedStatus,
           demand' = MoveDemands(demand, ds, from, to)
    PROVE  DemandSteps
BY MovedTo DEF DemandSteps

\* An UPDATE that follows the plan.
LEMMA MovedAlong ==
    ASSUME NEW p \in Plans, plans[p] # None, NEW from,
           demand' = MoveDemands(demand, plans[p].content.demands, from, plans'[p].status)
    PROVE  DemandSteps
BY MovedTo DEF DemandSteps, BlocksOf

LEMMA RevokedDemands ==
    ASSUME NEW targets, NEW d \in Demands
    PROVE  Released(targets)[d] = demand[d] \/ Released(targets)[d] = "SUBMITTED"
BY MovedTo DEF Released

LEMMA SessionDemands ==
    ASSUME IInv, NEW s \in Sessions, SessionStep(s)
    PROVE  DemandSteps
<1> DEFINE p == req[s].plan
<1>1. ASSUME req[s] # None, req[s].op \in PlanOps
      PROVE  p \in Plans /\ plans[p] # None /\ plans[p] \in Plan /\ plans \in [Plans -> Plan \cup {None}]
    BY <1>1, ReqFields, PlanFields DEF IInv, TypeOK, Vouched, VouchedReq
<1>2. ASSUME ApproveCommit(s) PROVE DemandSteps
    BY <1>2, MovedBack DEF ApproveCommit, ReleasedStatus, OnLineStatus
<1>3. ASSUME AuthorizeCommit(s) PROVE DemandSteps
  <2>1. p \in Plans /\ plans[p] # None /\ plans[p] \in Plan /\ plans \in [Plans -> Plan \cup {None}]
    BY <1>1, <1>3 DEF AuthorizeCommit, Serving, PlanOps
  <2>2. plans'[p].status = "AUTHORIZED_DRM"
    BY <1>3, <2>1 DEF AuthorizeCommit, Plan
  <2> QED
    BY <1>3, <2>1, <2>2, MovedAlong DEF AuthorizeCommit
<1>4. ASSUME RejectCommit(s) PROVE DemandSteps
    BY <1>4, MovedBack DEF RejectCommit, ReleasedStatus, OnLineStatus
<1>5. ASSUME AcknowledgeCommit(s) PROVE DemandSteps
  <2>1. UNCHANGED demand \/ \E ds, from : demand' = MoveDemands(demand, ds, from, "SENTINEL_PASSED")
    BY <1>5 DEF AcknowledgeCommit
  <2> QED
    BY <2>1, MovedBack DEF DemandSteps, ReleasedStatus, OnLineStatus
<1>6. ASSUME MoveCommitted(s) PROVE DemandSteps
  <2>1. PICK m \in Moves : MoveCommit(s, m)
    BY <1>6 DEF MoveCommitted
  <2>2. p \in Plans /\ plans[p] # None /\ plans[p] \in Plan /\ plans \in [Plans -> Plan \cup {None}]
    BY <1>1, <2>1 DEF MoveCommit, Serving, PlanOps, Moves
  <2>3. plans'[p].status = m.to
    BY <2>1, <2>2 DEF MoveCommit, Plan
  <2> QED
    BY <2>1, <2>2, <2>3, MovedAlong DEF MoveCommit
<1>7. ASSUME ReviseCommit(s) PROVE DemandSteps
    BY <1>7, MovedBack DEF ReviseCommit, ReleasedStatus, OnLineStatus
<1>8. ASSUME BreakdownUnplanned(s) PROVE DemandSteps
  <2>1. demand' = Released(req[s].targets)
    BY <1>8 DEF BreakdownUnplanned, BreakdownWithoutPlan
  <2> QED
    BY <2>1, RevokedDemands DEF DemandSteps, ReleasedStatus, OnLineStatus
<1>9. ASSUME BreakdownReplanned(s) PROVE DemandSteps
  <2>1. PICK c \in Offers :
          demand' = MoveDemands(Released(req[s].targets), c.demands, DemandStatus, "SCHEDULED_DRAFT")
    BY <1>9 DEF BreakdownReplanned, BreakdownCommit
  <2> QED
    BY <2>1, MovedTo, RevokedDemands DEF DemandSteps, ReleasedStatus, OnLineStatus
<1>10. ASSUME UNCHANGED demand PROVE DemandSteps
    BY <1>10 DEF DemandSteps
<1> QED
    BY <1>2, <1>3, <1>4, <1>5, <1>6, <1>7, <1>8, <1>9, <1>10
    DEF SessionStep, DecideRequest, DecideRead, AcknowledgeRequest, AcknowledgeRead, ReviseRequest,
        ReviseRead, TransmitRequest, TransmitRead, TransmitCommit, MoveRequest, MoveRead,
        BreakdownRequest, BreakdownRead, Abort, tables

LEMMA BridgeDemands ==
    ASSUME IInv, BridgeCommit
    PROVE  DemandSteps
<1>1. PICK granted \in Answers :
        /\ plans' = [p \in Plans |-> IF p \in {outbox[o].plan : o \in granted}
                                     THEN [plans[p] EXCEPT !.status = "TRANSMITTED_COA"]
                                     ELSE plans[p]]
        /\ demand' = MoveDemands(demand, UNION {plans[p].content.demands :
                                                  p \in {outbox[o].plan : o \in granted}},
                                 DemandStatus, "TRANSMITTED_COA")
    BY DEF BridgeCommit
<1>2. ASSUME NEW o \in granted
      PROVE  /\ outbox[o].plan \in Plans /\ plans[outbox[o].plan] # None
             /\ plans[outbox[o].plan] \in Plan
  <2>1. bridge # None /\ bridge \in Iteration /\ bridge.first # None
    BY DEF BridgeCommit, IInv, TypeOK
  <2>2. o \in Rows /\ Waiting(o)
    BY <2>1 DEF Answers, IInv, InHand, Iteration
  <2>3. outbox[o] # None /\ outbox[o].plan \in Plans
    BY <2>2 DEF Waiting, IInv, TypeOK, OutboxRow
  <2> QED
    BY <2>2, <2>3, PlanFields DEF IInv, Queued
<1> SUFFICES ASSUME NEW d \in Demands, demand'[d] # demand[d]
             PROVE  \E p \in BlocksOf(d) : plans'[p].status = demand'[d]
    BY DEF DemandSteps
<1>3. /\ d \in UNION {plans[p].content.demands : p \in {outbox[o].plan : o \in granted}}
      /\ demand'[d] = "TRANSMITTED_COA"
    BY <1>1, MovedTo
<1>4. PICK o \in granted : d \in plans[outbox[o].plan].content.demands
    BY <1>3
<1>5. plans'[outbox[o].plan].status = "TRANSMITTED_COA"
    BY <1>1, <1>2, <1>4 DEF Plan
<1> QED
    BY <1>2, <1>3, <1>4, <1>5 DEF BlocksOf

LEMMA DemandStepsOf ==
    ASSUME IInv, [Next]_vars
    PROVE  DemandSteps
<1>1. ASSUME UNCHANGED demand PROVE DemandSteps
    BY <1>1 DEF DemandSteps
<1>2. ASSUME NEW r \in Runs, RunStep(r) PROVE DemandSteps
  <2>1. ASSUME SolveCommit(r), NEW d \in Demands
        PROVE  demand'[d] = demand[d] \/ demand'[d] \in {"SENTINEL_PASSED", "SCHEDULED_DRAFT"}
    BY <2>1 DEF SolveCommit
  <2>2. ASSUME SolveEscalate(r) PROVE DemandSteps
    BY <2>2, MovedBack DEF SolveEscalate, ReleasedStatus, OnLineStatus
  <2> QED
    BY <1>1, <1>2, <2>1, <2>2 DEF RunStep, SolveStart, SolveNothing, DemandSteps, ReleasedStatus,
                                 OnLineStatus
<1>3. ASSUME NEW d \in Demands, Ingest(d) PROVE DemandSteps
    BY <1>3 DEF Ingest, DemandSteps, ReleasedStatus, OnLineStatus, IInv, TypeOK
<1>4. ASSUME BridgeStep PROVE DemandSteps
    BY <1>1, <1>4, BridgeDemands DEF BridgeStep, BridgeRead, BridgeRefuse, BridgeAbort, tables
<1> QED
    BY <1>1, <1>2, <1>3, <1>4, SessionDemands DEF Next, Ripen, AcknowledgeIncident, vars

\* A released demand has a signed block, one on line an acknowledged block.
DemandInv ==
    \A d \in Demands :
        demand[d] \in ReleasedStatus =>
        \E p \in BlocksOf(d) : Signed(p) /\ (demand[d] \in OnLineStatus => Acked(p))

\* What a block is, what was signed on it and what COA said of it lasts.
LEMMA BlockLasts ==
    ASSUME IInv, [Next]_vars, NEW d \in Demands, NEW p \in BlocksOf(d)
    PROVE  /\ p \in BlocksOf(d)'
           /\ Signed(p) => Signed(p)'
           /\ Acked(p) => Acked(p)'
<1>1. RowSteps /\ OutboxSteps /\ Lasting
    BY RowStepsOf, TableStepsOf, Lasts DEF TableSteps
<1>2. p \in BlocksOf(d)'
    BY <1>1 DEF Lasting, BlocksOf
<1>3. Signed(p) => Signed(p)'
    BY <1>1 DEF RowSteps, Written, SignedIn, MovedIn, GrantedBy, Withdrawn, SealedNow, SameHands,
                Signed, BlocksOf
<1>4. Acked(p) => Acked(p)'
    BY <1>1 DEF OutboxSteps, Acked
<1> QED
    BY <1>2, <1>3, <1>4

LEMMA DemandInvStep == IInv /\ DemandInv /\ [Next]_vars => DemandInv'
<1> SUFFICES ASSUME IInv, DemandInv, [Next]_vars, NEW d \in Demands, demand'[d] \in ReleasedStatus
             PROVE  \E p \in BlocksOf(d)' : Signed(p)' /\ (demand'[d] \in OnLineStatus => Acked(p)')
    BY DEF DemandInv
<1>1. DemandSteps /\ IInv'
    BY DemandStepsOf, StepInv
<1>2. CASE demand'[d] = demand[d]
    BY <1>2, BlockLasts DEF DemandInv
<1>3. ASSUME NEW p \in BlocksOf(d), plans'[p].status = demand'[d]
      PROVE  p \in BlocksOf(d)' /\ Signed(p)' /\ (demand'[d] \in OnLineStatus => Acked(p)')
  <2>1. p \in Plans /\ plans'[p] # None /\ p \in BlocksOf(d)'
    BY <1>3, BlockLasts DEF BlocksOf
  <2> QED
    BY <1>1, <1>3, <2>1 DEF IInv, Backed, ReleasedStatus
<1> QED
    BY <1>1, <1>2, <1>3 DEF DemandSteps

\* A decision and an authorisation by two different people stand behind every released
\* block, and behind every demand that is shown as released (chk_distinct_approvers).
THEOREM LifecycleTwoPersonRelease == Spec => []TwoPersonRelease
<1>1. Init => DemandInv
    BY DEF Init, DemandInv, ReleasedStatus, OnLineStatus
<1>2. IInv /\ DemandInv => TwoPersonRelease
  <2> SUFFICES ASSUME IInv, DemandInv PROVE TwoPersonRelease
    OBVIOUS
  <2>1. \A p \in Plans : plans[p] # None /\ Signed(p) => SignedByTwo(p)
    BY DEF IInv, Backed, Signed, SignedByTwo, DistinctApprovers
  <2>2. \A p \in Plans : plans[p] # None /\ plans[p].status \in OnLineStatus \cup {"AUTHORIZED_DRM"}
                         => Signed(p)
    BY DEF IInv, Backed
  <2>3. \A d \in Demands : demand[d] \in OnLineStatus \cup {"AUTHORIZED_DRM"}
                           => \E p \in BlocksOf(d) : Signed(p)
    BY DEF DemandInv, ReleasedStatus
  <2> QED
    BY <2>1, <2>2, <2>3 DEF TwoPersonRelease, BlocksOf
<1> QED
    BY <1>1, <1>2, DemandInvStep, Inductive, PTL DEF Spec

\* COA acknowledged a queued row of every block that is or was on line, and of a block of
\* every demand that is shown on line (SAFE-006).
THEOREM LifecycleOnLineOnlyOnAck == Spec => []OnLineOnlyOnAck
<1>1. Init => DemandInv
    BY DEF Init, DemandInv, ReleasedStatus, OnLineStatus
<1>2. IInv /\ DemandInv => OnLineOnlyOnAck
    BY DEF IInv, Backed, DemandInv, ReleasedStatus, OnLineOnlyOnAck
<1> QED
    BY <1>1, <1>2, DemandInvStep, Inductive, PTL DEF Spec

----------------------------------------------------------------------------
(***************************************************************************)
(* One key, one effect: the counter of a key is the presence of its row,   *)
(* because the INSERT of the second transaction with that key raises.      *)
(***************************************************************************)
KeyInv == \A k \in Keys : effects[k] = IF keys[k] = None THEN 0 ELSE 1

LEMMA KeyInvStep == IInv /\ KeyInv /\ [Next]_vars => KeyInv'
<1> SUFFICES ASSUME IInv, KeyInv, [Next]_vars PROVE KeyInv'
    OBVIOUS
<1>1. CASE UNCHANGED <<keys, effects>>
    BY <1>1 DEF KeyInv
<1>2. ASSUME NEW k \in Keys, NEW e \in Endpoint, NEW u \in Users, RecordKey(k, e, u) PROVE KeyInv'
  <2>1. [endpoint |-> e, actor |-> u] # None
    <3>1. [endpoint |-> e, actor |-> u] \in KeyRow
      BY DEF KeyRow
    <3> QED
      BY <3>1, StoreAssumption
  <2>2. effects[k] = 0 /\ effects \in [Keys -> Nat] /\ keys \in [Keys -> KeyRow \cup {None}]
    BY <1>2 DEF RecordKey, KeyInv, IInv, TypeOK
  <2> QED
    BY <1>2, <2>1, <2>2 DEF RecordKey, KeyInv
<1> QED
    BY <1>1, <1>2, TableStepsOf DEF TableSteps, KeySteps

\* A retried or doubled request commits its effect at most once, also when every copy
\* passed check_replay before any of them committed (idempotency_service.py:1-3).
THEOREM LifecycleSingleEffect == Spec => []SingleEffect
<1>1. Init => KeyInv
    BY DEF Init, KeyInv
<1>2. KeyInv => SingleEffect
    BY DEF KeyInv, SingleEffect
<1> QED
    BY <1>1, <1>2, KeyInvStep, Inductive, PTL DEF Spec
----------------------------------------------------------------------------
(***************************************************************************)
(* Drafts and their acknowledgments.  A request that read another status   *)
(* than DRAFT is right to leave the plan alone, because no row returns to  *)
(* DRAFT, and a new row finds no acknowledgment under its identifier.      *)
(***************************************************************************)
DraftInv ==
    /\ DraftAwaitsAcks
    /\ \A p \in Plans : plans[p] = None => acks[p] = {}
    /\ \A s \in Sessions :
         Serving(s, "acknowledge-signal") /\ ~req[s].draft => plans[req[s].plan].status # "DRAFT"

LEMMA DraftInvStep == IInv /\ DraftInv /\ [Next]_vars => DraftInv'
<1> SUFFICES ASSUME IInv, DraftInv, [Next]_vars PROVE DraftInv'
    OBVIOUS
<1>1. RowSteps /\ AckSteps /\ ReqSteps /\ Lasting
    BY RowStepsOf, TableStepsOf, Lasts DEF TableSteps
<1>2. ASSUME NEW s \in Sessions, AcknowledgeCommit(s)
      PROVE  /\ req[s].plan \in Plans /\ plans[req[s].plan] # None
             /\ plans'[req[s].plan].status = "DRAFT" => acks'[req[s].plan] # SignalRole
  <2> DEFINE p == req[s].plan
  <2>1. req[s] # None /\ req[s].op = "acknowledge-signal"
    BY <1>2 DEF AcknowledgeCommit, Serving
  <2>2. p \in Plans /\ plans[p] # None
    BY <2>1, ReqFields DEF IInv, PlanOps, Vouched, VouchedReq
  <2>3. ASSUME plans'[p].status = "DRAFT" PROVE acks'[p] # SignalRole
    <3>1. plans[p].status = "DRAFT" /\ req[s].draft
      BY <1>1, <1>2, <2>2, <2>3 DEF Lasting, DraftInv, AcknowledgeCommit
    <3>2. ~BothAcked(p, req[s].role)
      <4> SUFFICES ASSUME BothAcked(p, req[s].role) PROVE FALSE
        OBVIOUS
      <4>1. plans' = [plans EXCEPT ![p].status = "SENTINEL_PASSED", ![p].seal = plans[p].content]
        BY <1>2, <3>1 DEF AcknowledgeCommit
      <4>2. plans[p] \in Plan
        BY <2>2, PlanFields DEF IInv
      <4> QED
        BY <2>2, <2>3, <4>1, <4>2 DEF IInv, TypeOK, Plan
    <3> QED
      BY <1>2, <2>2, <3>2 DEF AcknowledgeCommit, BothAcked, IInv, TypeOK
  <2> QED
    BY <2>2, <2>3
<1>3. \A p \in Plans : plans'[p] = None => acks'[p] = {}
    BY <1>1, <1>2 DEF AckSteps, Lasting, DraftInv
<1>4. DraftAwaitsAcks'
  <2> SUFFICES ASSUME NEW p \in Plans, plans'[p] # None, plans'[p].status = "DRAFT"
               PROVE  acks'[p] # SignalRole
    BY DEF DraftAwaitsAcks
  <2>1. CASE acks'[p] = acks[p]
    <3>1. CASE plans[p] = None
      BY <2>1, <3>1 DEF DraftInv, SignalRole
    <3>2. CASE plans[p] # None
      BY <1>1, <2>1, <3>2 DEF Lasting, DraftInv, DraftAwaitsAcks
    <3> QED
      BY <3>1, <3>2
  <2>2. CASE acks'[p] # acks[p]
    BY <1>1, <1>2, <2>2 DEF AckSteps
  <2> QED
    BY <2>1, <2>2
<1>5. ASSUME NEW s \in Sessions, Serving(s, "acknowledge-signal")', ~req'[s].draft
      PROVE  plans'[req'[s].plan].status # "DRAFT"
  <2>1. CASE req'[s] = req[s]
    <3>1. /\ req[s] # None /\ req[s].op = "acknowledge-signal"
          /\ plans[req[s].plan].status # "DRAFT"
      BY <1>5, <2>1 DEF Serving, DraftInv
    <3>2. req[s].plan \in Plans /\ plans[req[s].plan] # None
      BY <3>1, ReqFields DEF IInv, PlanOps, Vouched, VouchedReq
    <3> QED
      BY <1>1, <2>1, <3>1, <3>2 DEF Lasting
  <2>2. CASE ReadIn(s)
    <3>1. PICK p \in Plans, role \in SignalRole : AcknowledgeRead(s, p, role)
      BY <1>5, <2>2 DEF ReadIn, DecideRequest, DecideRead, AcknowledgeRequest, ReviseRequest, ReviseRead,
         TransmitRequest, TransmitRead, MoveRequest, MoveRead, BreakdownRequest, BreakdownRead,
         Begin, Serving, IInv, TypeOK, Decisions, Moves
    <3> QED
      BY <1>5, <3>1 DEF AcknowledgeRead, Begin, IInv, TypeOK, tables
  <2> QED
    BY <1>1, <1>5, <2>1, <2>2 DEF ReqSteps, Serving
<1> QED
    BY <1>3, <1>4, <1>5 DEF DraftInv

\* Whatever two people acknowledge at the same moment, a plan with both acknowledgments
\* in is never left a DRAFT (plans.py:301-321).
THEOREM LifecycleDraftAwaitsAcks == Spec => []DraftAwaitsAcks
<1>1. Init => DraftInv
    BY DEF Init, DraftInv, DraftAwaitsAcks, Serving
<1>2. DraftInv => DraftAwaitsAcks
    BY DEF DraftInv
<1> QED
    BY <1>1, <1>2, DraftInvStep, Inductive, PTL DEF Spec
----------------------------------------------------------------------------
(***************************************************************************)
(* The requests a session may hold after a step, by kind.                  *)
(***************************************************************************)
\* The requests that take a plan along the chain, and all that look at its status.
CoverOps == {"approve", "authorize", "transmit", "activate", "complete", "archive"}
ChainOps == CoverOps \cup {"reject", "cancel"}

\* What a request that builds on the status of its plan was read from.
LEMMA PlanRead ==
    ASSUME IInv, NEW s \in Sessions, ReadIn(s), req'[s] # None, req'[s].op \in ChainOps
    PROVE  /\ req'[s].plan \in Plans /\ plans[req'[s].plan] # None
           /\ plans[req'[s].plan].status \in Past \cup {"DRAFT"}
           /\ req'[s].op \in CoverOps => plans[req'[s].plan].status \in Past
<1>1. ASSUME NEW d \in Decisions, NEW p \in Plans, NEW u \in Users, NEW k \in Keys,
             DecideRead(s, d, p, u, k)
      PROVE  req'[s].plan = p /\ plans[p] # None /\ plans[p].status \in Past
  <2>1. req'[s] = [op |-> d.op, plan |-> p, actor |-> u, key |-> k]
    BY <1>1 DEF DecideRead, Begin, IInv, TypeOK
  <2>2. d.from \subseteq Past
    BY DEF Decisions, Past
  <2> QED
    BY <1>1, <2>1, <2>2 DEF DecideRead
<1>2. ASSUME NEW p \in Plans, TransmitRead(s, p)
      PROVE  req'[s].plan = p /\ plans[p] # None /\ plans[p].status \in Past
    BY <1>2 DEF TransmitRead, Begin, IInv, TypeOK, Past
<1>3. ASSUME NEW m \in Moves, NEW p \in Plans, MoveRead(s, m, p)
      PROVE  /\ req'[s].plan = p /\ plans[p] # None
             /\ plans[p].status \in Past \cup {"DRAFT"}
             /\ req'[s].op \in CoverOps => plans[p].status \in Past
  <2>1. req'[s] = [op |-> m.op, plan |-> p]
    BY <1>3 DEF MoveRead, Begin, IInv, TypeOK
  <2>2. m.from \subseteq Past \cup {"DRAFT"} /\ (m.op \in CoverOps => m.from \subseteq Past)
    BY DEF Moves, Past, OnLineStatus, CoverOps
  <2> QED
    BY <1>3, <2>1, <2>2 DEF MoveRead
<1>4. ~AcknowledgeRequest(s) /\ ~ReviseRequest(s) /\ ~BreakdownRequest(s)
    BY DEF AcknowledgeRequest, AcknowledgeRead, ReviseRequest, ReviseRead, BreakdownRequest,
           BreakdownRead, Begin, ChainOps, CoverOps, IInv, TypeOK
<1> QED
    BY <1>1, <1>2, <1>3, <1>4 DEF ReadIn, DecideRequest, TransmitRequest, MoveRequest

LEMMA DecisionRead ==
    ASSUME IInv, NEW s \in Sessions, ReadIn(s), req'[s] # None, req'[s].op \in {"approve", "authorize"}
    PROVE  /\ req'[s].plan \in Plans /\ plans[req'[s].plan] # None
           /\ plans[req'[s].plan].status \in {"SENTINEL_PASSED", "APPROVED_SR_DOM"}
           /\ HashGate(req'[s].plan)
<1>1. PICK d \in Decisions, p \in Plans, u \in Users, k \in Keys : DecideRead(s, d, p, u, k)
    BY DEF ReadIn, DecideRequest, AcknowledgeRequest, AcknowledgeRead, ReviseRequest, ReviseRead,
       TransmitRequest, TransmitRead, MoveRequest, MoveRead, BreakdownRequest, BreakdownRead,
       Begin, IInv, TypeOK, Moves
<1>2. req'[s] = [op |-> d.op, plan |-> p, actor |-> u, key |-> k]
    BY <1>1 DEF DecideRead, Begin, IInv, TypeOK
<1>3. d.op \in {"approve", "authorize"} => d.from \subseteq {"SENTINEL_PASSED", "APPROVED_SR_DOM"}
    BY DEF Decisions
<1> QED
    BY <1>1, <1>2, <1>3 DEF DecideRead

LEMMA BreakdownReq ==
    ASSUME IInv, NEW s \in Sessions, ReadIn(s), Serving(s, "breakdown")'
    PROVE  \E sec \in Sections, u \in Users, k \in Keys :
             /\ BreakdownRead(s, sec, u, k)
             /\ req'[s].section = sec
             /\ req'[s].targets = OnSection(sec, ActiveStatus)
             /\ req'[s].into \in IF Roots(sec) = {} THEN {None} ELSE Roots(sec)
<1>1. PICK sec \in Sections, u \in Users, k \in Keys : BreakdownRead(s, sec, u, k)
    BY DEF ReadIn, DecideRequest, DecideRead, AcknowledgeRequest, AcknowledgeRead, ReviseRequest,
       ReviseRead, TransmitRequest, TransmitRead, MoveRequest, MoveRead, BreakdownRequest,
       Begin, IInv, TypeOK, Moves, Decisions, Serving
<1>2. PICK into \in IF Roots(sec) = {} THEN {None} ELSE Roots(sec) :
        Begin(s, [op |-> "breakdown", section |-> sec, into |-> into,
                  targets |-> OnSection(sec, ActiveStatus), actor |-> u, key |-> k])
    BY <1>1 DEF BreakdownRead
<1>3. /\ req'[s].section = sec /\ req'[s].into = into
      /\ req'[s].targets = OnSection(sec, ActiveStatus)
    BY <1>2 DEF Begin, IInv, TypeOK
<1> QED
    BY <1>1, <1>2, <1>3
----------------------------------------------------------------------------
(***************************************************************************)
(* A revision starts afresh.  A decision in flight carries the seal it     *)
(* read, and only both acknowledgments give a revision its seal.           *)
(***************************************************************************)
Fresh(p) == plans[p].supersedes # None => acks[p] = SignalRole

RevisionInv ==
    /\ RevisionStartsAfresh
    /\ \A s \in Sessions :
         Serving(s, "approve") \/ Serving(s, "authorize") => Fresh(req[s].plan)

LEMMA FreshLasts ==
    ASSUME IInv, Lasting, NEW p \in Plans, plans[p] # None, Fresh(p)
    PROVE  acks'[p] \in SUBSET SignalRole => Fresh(p)'
BY DEF Lasting, Fresh

LEMMA RevisionInvStep == IInv /\ RevisionInv /\ [Next]_vars => RevisionInv'
<1> SUFFICES ASSUME IInv, RevisionInv, [Next]_vars PROVE RevisionInv'
    OBVIOUS
<1>1. RowSteps /\ ReqSteps /\ Lasting /\ TypeOK'
    BY RowStepsOf, TableStepsOf, Lasts, StepInv DEF TableSteps, IInv
<1>2. \A p \in Plans : plans[p] # None /\ Fresh(p) => Fresh(p)'
    BY <1>1, FreshLasts DEF TypeOK
<1>3. ASSUME NEW s \in Sessions, req[s] # None, req[s].op \in {"approve", "authorize"}
      PROVE  req[s].plan \in Plans /\ plans[req[s].plan] # None /\ Fresh(req[s].plan)
    BY <1>3, ReqFields DEF IInv, PlanOps, Vouched, VouchedReq, RevisionInv, Serving
<1>4. RevisionStartsAfresh'
  <2> SUFFICES ASSUME NEW p \in Plans, plans'[p] # None, plans'[p].supersedes # None,
                      acks'[p] # SignalRole
               PROVE  plans'[p].seal = None /\ NoHands(plans'[p])
    BY DEF RevisionStartsAfresh, NoHands
  <2>1. CASE plans[p] = None
    BY <1>1, <2>1 DEF RowSteps, Born, BornSealed, OfTheSolver, BornProvisional
  <2>2. CASE plans[p] # None
    <3>1. plans[p].supersedes # None /\ acks[p] # SignalRole
      BY <1>1, <2>2, <1>2 DEF Lasting, Fresh
    <3>2. plans[p].seal = None /\ NoHands(plans[p])
      BY <2>2, <3>1 DEF RevisionInv, RevisionStartsAfresh, NoHands
    <3>3. ~Fresh(p)
      BY <3>1 DEF Fresh
    <3>4. \A s \in Sessions : ~(req[s] # None /\ req[s].plan = p /\ SignedIn(s, plans'[p], plans[p]))
      BY <1>3, <3>3 DEF SignedIn, Serving
    <3> QED
      BY <1>1, <2>2, <3>2, <3>4
      DEF RowSteps, Written, MovedIn, GrantedBy, Withdrawn, SealedNow, SameHands, NoHands
  <2> QED
    BY <2>1, <2>2
<1>5. ASSUME NEW s \in Sessions, req'[s] # None, req'[s].op \in {"approve", "authorize"}
      PROVE  Fresh(req[s].plan)'
  <2>1. CASE req'[s] = req[s]
    BY <1>2, <1>3, <1>5, <2>1
  <2>2. CASE ReadIn(s)
    <3> DEFINE p == req'[s].plan
    <3>1. p \in Plans /\ plans[p] # None /\ HashGate(p)
      BY <1>5, <2>2, DecisionRead
    <3>2. plans[p].seal # None
      <4>1. plans[p].content \in Content
        BY <3>1, PlanFields DEF IInv, Plan
      <4> QED
        BY <3>1, <4>1, StoreAssumption DEF HashGate
    <3>3. Fresh(p)
      BY <3>1, <3>2 DEF RevisionInv, RevisionStartsAfresh, Fresh
    <3>4. UNCHANGED <<plans, acks>>
      BY <2>2, ReadAlone DEF tables, IInv
    <3> QED
      BY <3>3, <3>4 DEF Fresh
  <2> QED
    BY <1>1, <1>5, <2>1, <2>2 DEF ReqSteps
<1> QED
    BY <1>4, <1>5 DEF RevisionInv, Serving

\* Until both acknowledgments of its own are in, a revision has neither a seal nor a
\* decision, whatever was decided on its predecessor meanwhile (FR-026).
THEOREM LifecycleRevisionStartsAfresh == Spec => []RevisionStartsAfresh
<1>1. Init => RevisionInv
    BY DEF Init, RevisionInv, RevisionStartsAfresh, Serving
<1>2. RevisionInv => RevisionStartsAfresh
    BY DEF RevisionInv
<1> QED
    BY <1>1, <1>2, RevisionInvStep, Inductive, PTL DEF Spec
----------------------------------------------------------------------------
(***************************************************************************)
(* Coalescing.  The incident to coalesce into is read before the INSERT,   *)
(* and what made it a root then is never written again.                    *)
(***************************************************************************)
RootFor(j, sec) ==
    /\ incidents[j] # None
    /\ incidents[j].into = None
    /\ incidents[j].section \in AdjacentTo(sec)

CoalesceInv ==
    /\ CoalescedIntoRoot
    /\ \A s \in Sessions :
         Serving(s, "breakdown") /\ req[s].into # None => RootFor(req[s].into, req[s].section)

LEMMA CoalesceInvStep == IInv /\ CoalesceInv /\ [Next]_vars => CoalesceInv'
<1> SUFFICES ASSUME IInv, CoalesceInv, [Next]_vars PROVE CoalesceInv'
    OBVIOUS
<1>1. IncidentSteps /\ ReqSteps /\ Lasting
    BY TableStepsOf, Lasts DEF TableSteps
<1>2. \A j \in Incidents : \A sec : RootFor(j, sec) => RootFor(j, sec)'
    BY <1>1 DEF Lasting, RootFor, AdjacentTo
<1>3. ASSUME NEW s \in Sessions, Serving(s, "breakdown")
      PROVE  /\ req[s].into \in Incidents \cup {None}
             /\ req[s].into # None => RootFor(req[s].into, req[s].section)
    BY <1>3, ReqFields DEF IInv, CoalesceInv, Serving
<1>4. ASSUME NEW i \in Incidents, incidents'[i] # None, incidents'[i].into # None
      PROVE  incidents'[i].into \in Incidents /\ RootFor(incidents[i].into, incidents[i].section)'
  <2>1. CASE incidents[i] # None
    <3>1. incidents[i].into # None /\ incidents'[i].into = incidents[i].into
          /\ incidents'[i].section = incidents[i].section
      BY <1>1, <1>4, <2>1 DEF Lasting
    <3>2. incidents[i] \in Incident
      BY <2>1 DEF IInv, TypeOK
    <3>3. incidents[i].into \in Incidents
      BY <3>1, <3>2 DEF Incident
    <3>4. RootFor(incidents[i].into, incidents[i].section)
      BY <2>1, <3>1 DEF CoalesceInv, CoalescedIntoRoot, RootFor
    <3> QED
      BY <1>2, <3>1, <3>3, <3>4
  <2>2. CASE incidents[i] = None
    <3>1. PICK s \in Sessions : Serving(s, "breakdown") /\ LogIncident(s, i)
      BY <1>1, <1>4, <2>2 DEF IncidentSteps
    <3>2. incidents'[i].into = req[s].into /\ incidents'[i].section = req[s].section
      BY <3>1 DEF LogIncident, IInv, TypeOK
    <3> QED
      BY <1>2, <1>3, <1>4, <3>1, <3>2
  <2> QED
    BY <2>1, <2>2
<1>5. ASSUME NEW s \in Sessions, Serving(s, "breakdown")', req'[s].into # None
      PROVE  RootFor(req[s].into, req[s].section)'
  <2>1. CASE req'[s] = req[s]
    BY <1>2, <1>3, <1>5, <2>1 DEF Serving
  <2>2. CASE ReadIn(s)
    <3>1. PICK sec \in Sections, u \in Users, k \in Keys :
             /\ req'[s].section = sec
             /\ req'[s].into \in IF Roots(sec) = {} THEN {None} ELSE Roots(sec)
      BY <1>5, <2>2, BreakdownReq
    <3>2. req'[s].into \in Incidents /\ RootFor(req'[s].into, req'[s].section)
      BY <1>5, <3>1 DEF Roots, RootFor
    <3> QED
      BY <1>2, <3>2
  <2> QED
    BY <1>1, <1>5, <2>1, <2>2 DEF ReqSteps, Serving
<1> QED
    BY <1>4, <1>5 DEF CoalesceInv, CoalescedIntoRoot, RootFor

\* A coalesced incident points at one that leads its own re-plan on an adjacent section,
\* also when both were read before either was written (emergency_service.py:64-84).
THEOREM LifecycleCoalescedIntoRoot == Spec => []CoalescedIntoRoot
<1>1. Init => CoalesceInv
    BY DEF Init, CoalesceInv, CoalescedIntoRoot, Serving
<1>2. CoalesceInv => CoalescedIntoRoot
    BY DEF CoalesceInv
<1> QED
    BY <1>1, <1>2, CoalesceInvStep, Inductive, PTL DEF Spec

----------------------------------------------------------------------------
(***************************************************************************)
(* An incident number is unused until its breakdown commits, and that      *)
(* commit adds one PROVISIONAL plan at most.                               *)
(***************************************************************************)
ProvisionalInv ==
    /\ ProvisionalHasItsIncident
    /\ \A p \in Plans : Provisional(p) => incidents[plans[p].incident] # None

LEMMA ProvisionalInvStep == IInv /\ ProvisionalInv /\ [Next]_vars => ProvisionalInv'
<1> SUFFICES ASSUME IInv, ProvisionalInv, [Next]_vars PROVE ProvisionalInv'
    OBVIOUS
<1>1. RowSteps /\ Lasting
    BY RowStepsOf, Lasts
<1>2. ASSUME NEW p \in Plans, Provisional(p)'
      PROVE  (Provisional(p) /\ plans'[p] = plans[p]) \/ (plans[p] = None /\ BornProvisional(p))
    BY <1>1, <1>2 DEF Provisional, RowSteps, Written, SignedIn, MovedIn, GrantedBy, Withdrawn,
                      SealedNow, Born, BornSealed
<1>3. ASSUME NEW p \in Plans, Provisional(p), plans'[p] = plans[p]
      PROVE  /\ plans[p].incident \in Incidents
             /\ incidents[plans[p].incident] # None
             /\ incidents'[plans[p].incident] # None
             /\ plans[p].content.section \in Affected(incidents'[plans[p].incident].section)
  <2>1. plans[p] \in Plan /\ plans[p].incident # None
    BY <1>3, PlanFields DEF IInv, Provisional, ProvisionalInv, ProvisionalHasItsIncident
  <2>2. plans[p].incident \in Incidents
    BY <2>1 DEF Plan
  <2> QED
    BY <1>1, <1>3, <2>2 DEF ProvisionalInv, ProvisionalHasItsIncident, Lasting
<1>4. ASSUME NEW p \in Plans, BornProvisional(p)
      PROVE  /\ plans'[p].incident \in Incidents
             /\ incidents[plans'[p].incident] = None
             /\ incidents'[plans'[p].incident] # None
             /\ plans'[p].content.section \in Affected(incidents'[plans'[p].incident].section)
  <2>1. PICK s \in Sessions, i \in Incidents :
             /\ Serving(s, "breakdown") /\ LogIncident(s, i)
             /\ plans'[p].incident = i
             /\ plans'[p].content.section \in Affected(req[s].section)
    BY <1>4 DEF BornProvisional
  <2>2. /\ req[s].section \in Sections /\ req[s].into \in Incidents \cup {None}
    BY <2>1, ReqFields DEF Serving, IInv
  <2>3. incidents'[i] = [section |-> req[s].section, into |-> req[s].into, acked |-> FALSE]
    BY <2>1 DEF LogIncident, IInv, TypeOK
  <2>4. incidents'[i] \in Incident /\ incidents'[i].section = req[s].section
    BY <2>2, <2>3 DEF Incident
  <2> QED
    BY <2>1, <2>4, StoreAssumption DEF LogIncident
<1>5. ASSUME NEW p \in Plans, Provisional(p)'
      PROVE  /\ plans'[p].incident \in Incidents
             /\ incidents'[plans'[p].incident] # None
             /\ plans'[p].content.section \in Affected(incidents'[plans'[p].incident].section)
    BY <1>2, <1>3, <1>4, <1>5
<1>6. ASSUME NEW p \in Plans, NEW q \in Plans \ {p}, Provisional(p)', Provisional(q)'
      PROVE  plans'[q].incident # plans'[p].incident
  <2>1. CASE Provisional(p) /\ plans'[p] = plans[p] /\ Provisional(q) /\ plans'[q] = plans[q]
    BY <2>1 DEF ProvisionalInv, ProvisionalHasItsIncident
  <2>2. CASE BornProvisional(p) /\ Provisional(q) /\ plans'[q] = plans[q]
    BY <1>3, <1>4, <2>2
  <2>3. CASE BornProvisional(q) /\ Provisional(p) /\ plans'[p] = plans[p]
    BY <1>3, <1>4, <2>3
  <2>4. ~(plans[p] = None /\ BornProvisional(p) /\ plans[q] = None /\ BornProvisional(q))
    BY <1>6 DEF BornProvisional, Provisional
  <2> QED
    BY <1>2, <1>6, <2>1, <2>2, <2>3, <2>4
<1>7. \A p \in Plans : Provisional(p)' => plans'[p].incident # None
    BY <1>5, StoreAssumption
<1> QED
    BY <1>5, <1>6, <1>7 DEF ProvisionalInv, ProvisionalHasItsIncident, Affected, AdjacentTo

\* A PROVISIONAL plan has an incident of its own, in whose area it lies, however many
\* breakdowns of neighbouring sections run at the same time (ADR-006).
THEOREM LifecycleProvisionalHasItsIncident == Spec => []ProvisionalHasItsIncident
<1>1. Init => ProvisionalInv
    BY DEF Init, ProvisionalInv, ProvisionalHasItsIncident, Provisional
<1>2. ProvisionalInv => ProvisionalHasItsIncident
    BY DEF ProvisionalInv
<1> QED
    BY <1>1, <1>2, ProvisionalInvStep, Inductive, PTL DEF Spec
----------------------------------------------------------------------------
(***************************************************************************)
(* The plan of an emergency waits.  No request that looks at a status      *)
(* before it writes ever sees one that lets it through.                    *)
(***************************************************************************)
Replan(p) == plans[p] # None /\ plans[p].incident # None /\ plans[p].supersedes = None

ReplanInv ==
    /\ ReplanWaits
    /\ \A s \in Sessions :
         req[s] # None =>
         /\ req[s].op \in ChainOps => ~Replan(req[s].plan)
         /\ req[s].op = "breakdown" => \A p \in req[s].targets : ~Replan(p)
    /\ \A o \in Rows : outbox[o] # None => ~Replan(outbox[o].plan)

LEMMA ReplanInvStep == IInv /\ ReplanInv /\ [Next]_vars => ReplanInv'
<1> SUFFICES ASSUME IInv, ReplanInv, [Next]_vars PROVE ReplanInv'
    OBVIOUS
<1>1. RowSteps /\ ReqSteps /\ OutboxSteps
    BY RowStepsOf, TableStepsOf DEF TableSteps
<1>2. \A p \in Plans : plans[p] # None => (Replan(p)' <=> Replan(p))
    BY <1>1 DEF RowSteps, Written, SameOrigin, Replan
<1>3. ASSUME NEW p \in Plans, plans[p] # None, plans[p].status \in Past \cup {"DRAFT"}
      PROVE  ~Replan(p)
    BY <1>3 DEF ReplanInv, ReplanWaits, Replan, Past, OnLineStatus
<1>4. ASSUME NEW s \in Sessions, req[s] # None
      PROVE  /\ req[s].op \in ChainOps => /\ req[s].plan \in Plans /\ plans[req[s].plan] # None
                                          /\ ~Replan(req[s].plan)
             /\ req[s].op = "breakdown"
                => \A p \in req[s].targets : p \in Plans /\ plans[p] # None /\ ~Replan(p)
    BY <1>4, ReqFields DEF IInv, PlanOps, ChainOps, CoverOps, Vouched, VouchedReq, ReplanInv
<1>5. ASSUME NEW o \in Rows, outbox[o] # None
      PROVE  outbox[o].plan \in Plans /\ plans[outbox[o].plan] # None /\ ~Replan(outbox[o].plan)
  <2>1. outbox[o].plan \in Plans
    BY <1>5 DEF IInv, TypeOK, OutboxRow
  <2> QED
    BY <1>5, <2>1 DEF IInv, Queued, ReplanInv
<1>6. ASSUME NEW p \in Plans, Replan(p)'
      PROVE  plans'[p].status \in {"PROVISIONAL", "SUPERSEDED"}
  <2>1. CASE plans[p] = None
    BY <1>1, <1>6, <2>1 DEF RowSteps, Born, BornSealed, BornProvisional, OfTheSolver, Replan
  <2>2. CASE plans[p] # None
    <3>1. Replan(p) /\ plans[p].status \in {"PROVISIONAL", "SUPERSEDED"}
      BY <1>2, <1>6, <2>2 DEF ReplanInv, ReplanWaits, Replan
    <3>2. \A s \in Sessions : ~(req[s] # None /\ req[s].op \in ChainOps /\ req[s].plan = p)
      BY <1>4, <3>1
    <3>3. \A s \in Sessions : ~(Serving(s, "breakdown") /\ p \in req[s].targets)
      BY <1>4, <3>1 DEF Serving
    <3>4. \A o \in Rows : ~(Waiting(o) /\ outbox[o].plan = p)
      BY <1>5, <3>1 DEF Waiting
    <3> QED
      BY <1>1, <2>2, <3>1, <3>2, <3>3, <3>4
      DEF RowSteps, Written, SignedIn, MovedIn, GrantedBy, Withdrawn, SealedNow, Serving,
          RevokesNow, ChainOps, CoverOps
  <2> QED
    BY <2>1, <2>2
<1>7. ASSUME NEW s \in Sessions, req'[s] # None, req'[s].op \in ChainOps
      PROVE  ~Replan(req[s].plan)'
  <2>1. CASE req'[s] = req[s]
    BY <1>2, <1>4, <1>7, <2>1
  <2>2. CASE ReadIn(s)
    BY <1>2, <1>3, <1>7, <2>2, PlanRead
  <2> QED
    BY <1>1, <1>7, <2>1, <2>2 DEF ReqSteps
<1>8. ASSUME NEW s \in Sessions, req'[s] # None, req'[s].op = "breakdown", NEW p \in req'[s].targets
      PROVE  ~Replan(p)'
  <2>1. CASE req'[s] = req[s]
    BY <1>2, <1>4, <1>8, <2>1
  <2>2. CASE ReadIn(s)
    <3>1. PICK sec \in Sections : req'[s].targets = OnSection(sec, ActiveStatus)
      BY <1>8, <2>2, BreakdownReq DEF Serving
    <3>2. p \in Plans /\ plans[p] # None /\ plans[p].status \in Past
      BY <1>8, <3>1 DEF OnSection, ActiveStatus, Past, OnLineStatus
    <3> QED
      BY <1>2, <1>3, <3>2
  <2> QED
    BY <1>1, <1>8, <2>1, <2>2 DEF ReqSteps
<1>9. ASSUME NEW o \in Rows, outbox'[o] # None
      PROVE  ~Replan(outbox[o].plan)'
  <2>1. CASE outbox[o] # None
    <3>1. outbox'[o].plan = outbox[o].plan
      BY <1>1, <1>9, <2>1 DEF OutboxSteps
    <3> QED
      BY <1>2, <1>5, <2>1, <3>1
  <2>2. CASE outbox[o] = None
    <3>1. PICK s \in Sessions : TransmitCommit(s) /\ req[s].plan = outbox'[o].plan
      BY <1>1, <1>9, <2>2 DEF OutboxSteps
    <3>2. req[s] # None /\ req[s].op \in ChainOps
      BY <3>1 DEF TransmitCommit, Serving, ChainOps, CoverOps
    <3> QED
      BY <1>2, <1>4, <3>1, <3>2
  <2> QED
    BY <2>1, <2>2
<1> QED
    BY <1>6, <1>7, <1>8, <1>9 DEF ReplanInv, ReplanWaits, Replan

\* The plan of an emergency is never decided, queued, transmitted or cancelled: nothing
\* moves it but a revision, whatever requests are in flight (ADR-006, coa_adapter.py:40-44).
THEOREM LifecycleReplanWaits == Spec => []ReplanWaits
<1>1. Init => ReplanInv
    BY DEF Init, ReplanInv, ReplanWaits
<1>2. ReplanInv => ReplanWaits
    BY DEF ReplanInv
<1> QED
    BY <1>1, <1>2, ReplanInvStep, Inductive, PTL DEF Spec

----------------------------------------------------------------------------
\* The demands that issue_advisory_revocation leaves where they are, and that a plan may
\* stand behind: those waiting already, and those from ACTIVE_GRANTED on.
NotReleased == {"NORMALIZED", "ACTIVE_GRANTED", "COMPLETED_FITNESS", "ARCHIVED_SEALED",
                "CANCELLED", "ESCALATED_OVERDUE"}

\* Work displaced by a breakdown waits again or serves the re-plan: the demands that do
\* not are left exactly as they were, and none of them was between SCHEDULED_DRAFT and
\* TRANSMITTED_COA when the breakdown committed, whatever was read before it
\* (issue_advisory_revocation, emergency_service.py:102-107).
THEOREM LifecycleDisplacedUnlessGranted ==
    Spec => [][\A p \in Plans :
                 /\ plans[p] # None
                 /\ plans[p].status # "SUPERSEDED_EMERGENCY"
                 /\ plans'[p].status = "SUPERSEDED_EMERGENCY"
                 => \A d \in plans[p].content.demands :
                      \/ demand'[d] \in {"SUBMITTED", "SCHEDULED_DRAFT"}
                      \/ demand[d] \in NotReleased /\ demand'[d] = demand[d]]_vars
<1> DEFINE Displaced ==
       \A p \in Plans :
         /\ plans[p] # None
         /\ plans[p].status # "SUPERSEDED_EMERGENCY"
         /\ plans'[p].status = "SUPERSEDED_EMERGENCY"
         => \A d \in plans[p].content.demands :
              \/ demand'[d] \in {"SUBMITTED", "SCHEDULED_DRAFT"}
              \/ demand[d] \in NotReleased /\ demand'[d] = demand[d]
<1>1. IInv /\ [Next]_vars => Displaced
  <2> SUFFICES ASSUME IInv, [Next]_vars, NEW p \in Plans, plans[p] # None,
                      plans[p].status # "SUPERSEDED_EMERGENCY",
                      plans'[p].status = "SUPERSEDED_EMERGENCY",
                      NEW d \in plans[p].content.demands
               PROVE  \/ demand'[d] \in {"SUBMITTED", "SCHEDULED_DRAFT"}
                      \/ demand[d] \in NotReleased /\ demand'[d] = demand[d]
    OBVIOUS
  <2>1. Written(p)
    BY RowStepsOf DEF RowSteps
  <2>2. PICK s \in Sessions : RevokesNow(s) /\ p \in req[s].targets
    BY <2>1 DEF Written, SignedIn, MovedIn, GrantedBy, Withdrawn, SealedNow
  <2>3. d \in Demands /\ demand[d] \in DemandStatus
    BY PlanFields DEF IInv, TypeOK, Plan, Content
  <2>4. \/ Released(req[s].targets)[d] = "SUBMITTED"
        \/ demand[d] \in NotReleased \cup {"SUBMITTED"} /\ Released(req[s].targets)[d] = demand[d]
    BY <2>2, <2>3 DEF Released, MoveDemands, DemandStatus, NotReleased
  <2>5. CASE BreakdownUnplanned(s)
    BY <2>4, <2>5 DEF BreakdownUnplanned, BreakdownWithoutPlan
  <2>6. CASE BreakdownReplanned(s)
    <3>1. PICK c \in Offers :
            demand' = MoveDemands(Released(req[s].targets), c.demands, DemandStatus, "SCHEDULED_DRAFT")
      BY <2>6 DEF BreakdownReplanned, BreakdownCommit
    <3>2. demand'[d] = Released(req[s].targets)[d] \/ demand'[d] = "SCHEDULED_DRAFT"
      BY <2>3, <3>1, MovedTo
    <3> QED
      BY <2>4, <3>2
  <2> QED
    BY <2>2, <2>5, <2>6 DEF RevokesNow
<1> QED
    BY <1>1, Inductive, PTL DEF Spec

----------------------------------------------------------------------------
\* Nothing brings a revoked block back on line but a transaction that read it before
\* the revocation: an authorisation, an activation, the first row of the bridge.
THEOREM LifecycleRevivedByStaleReadOnly == Spec => RevivedByStaleReadOnly
<1> DEFINE Stale ==
       \A p \in Plans :
         /\ plans[p] # None
         /\ plans[p].status = "SUPERSEDED_EMERGENCY"
         /\ plans'[p].status \in ActiveStatus
         => \/ \E s \in Sessions : /\ Serving(s, "activate") \/ Serving(s, "authorize")
                                  /\ req[s].plan = p
            \/ /\ bridge # None /\ bridge.first # None
               /\ outbox[bridge.first].plan = p
<1>1. IInv /\ [Next]_vars => Stale
  <2> SUFFICES ASSUME IInv, [Next]_vars, NEW p \in Plans, plans[p] # None,
                      plans[p].status = "SUPERSEDED_EMERGENCY", plans'[p].status \in ActiveStatus
               PROVE  \/ \E s \in Sessions : /\ Serving(s, "activate") \/ Serving(s, "authorize")
                                             /\ req[s].plan = p
                      \/ /\ bridge # None /\ bridge.first # None
                         /\ outbox[bridge.first].plan = p
    OBVIOUS
  <2>1. Written(p)
    BY RowStepsOf DEF RowSteps, ActiveStatus
  <2>2. None \notin Rows
    BY StoreAssumption
  <2> QED
    BY <2>1, <2>2 DEF Written, SignedIn, MovedIn, GrantedBy, Withdrawn, SealedNow, ActiveStatus
<1> QED
    BY <1>1, Inductive, PTL DEF Spec, RevivedByStaleReadOnly

----------------------------------------------------------------------------
(***************************************************************************)
(* What a plan carries past the Sentinel.  A fact that seals a plan, and   *)
(* that no step takes back, holds of every plan past the Sentinel, of      *)
(* every plan that a request takes along the chain, and of every queued    *)
(* plan, because each of them is read from a plan it holds of.             *)
(***************************************************************************)
CarriedBy(X) ==
    /\ \A p \in Plans : plans[p] # None /\ plans[p].status \in Past => p \in X
    /\ \A s \in Sessions : req[s] # None /\ req[s].op \in CoverOps => req[s].plan \in X
    /\ \A o \in Rows : outbox[o] # None => outbox[o].plan \in X

\* X are the plans of which the fact holds before the step, Y those after it.
LEMMA CarriedStep ==
    ASSUME IInv, [Next]_vars, NEW X, NEW Y, CarriedBy(X), X \subseteq Y,
           \A p \in Plans : plans[p] # None /\ SealedNow(p) => p \in Y,
           \A p \in Plans : plans[p] = None /\ plans'[p] # None /\ BornSealed(p) => p \in Y
    PROVE  /\ \A p \in Plans : plans'[p] # None /\ plans'[p].status \in Past => p \in Y
           /\ \A s \in Sessions : req'[s] # None /\ req'[s].op \in CoverOps => req'[s].plan \in Y
           /\ \A o \in Rows : outbox'[o] # None => outbox'[o].plan \in Y
<1>1. RowSteps /\ ReqSteps /\ OutboxSteps
    BY RowStepsOf, TableStepsOf DEF TableSteps
<1>2. ASSUME NEW p \in Plans, plans'[p] # None, plans'[p].status \in Past
      PROVE  p \in Y
  <2>1. CASE plans'[p] = plans[p]
    BY <1>2, <2>1 DEF CarriedBy
  <2>2. CASE plans[p] # None /\ Written(p)
    <3>1. ~Withdrawn(p, plans'[p], plans[p])
      BY <1>2 DEF Withdrawn, Past, OnLineStatus
    <3>2. ASSUME NEW s \in Sessions, req[s] # None, req[s].plan = p,
                 SignedIn(s, plans'[p], plans[p]) \/ MovedIn(s, plans'[p], plans[p])
          PROVE  p \in X
      BY <3>2 DEF SignedIn, MovedIn, Serving, CoverOps, CarriedBy
    <3>3. ASSUME NEW o \in Rows, GrantedBy(o, plans'[p], plans[p]), outbox[o].plan = p
          PROVE  p \in X
      BY <3>3 DEF GrantedBy, Waiting, CarriedBy
    <3> QED
      BY <2>2, <3>1, <3>2, <3>3 DEF Written
  <2>3. CASE plans[p] = None /\ Born(p)
    BY <1>2, <2>3 DEF Born, BornProvisional, Past, OnLineStatus
  <2> QED
    BY <1>1, <2>1, <2>2, <2>3 DEF RowSteps
<1>3. ASSUME NEW s \in Sessions, req'[s] # None, req'[s].op \in CoverOps
      PROVE  req'[s].plan \in Y
  <2>1. CASE ReadIn(s)
    <3>1. /\ req'[s].plan \in Plans /\ plans[req'[s].plan] # None
          /\ plans[req'[s].plan].status \in Past
      BY <1>3, <2>1, PlanRead DEF ChainOps
    <3> QED
      BY <3>1 DEF CarriedBy
  <2> QED
    BY <1>1, <1>3, <2>1 DEF ReqSteps, CarriedBy
<1>4. ASSUME NEW o \in Rows, outbox'[o] # None
      PROVE  outbox'[o].plan \in Y
  <2>1. CASE outbox[o] # None
    BY <1>1, <1>4, <2>1 DEF OutboxSteps, CarriedBy
  <2>2. CASE outbox[o] = None
    <3>1. PICK s \in Sessions : TransmitCommit(s) /\ req[s].plan = outbox'[o].plan
      BY <1>1, <1>4, <2>2 DEF OutboxSteps
    <3>2. req[s] # None /\ req[s].op \in CoverOps
      BY <3>1 DEF TransmitCommit, Serving, CoverOps
    <3> QED
      BY <3>1, <3>2 DEF CarriedBy
  <2> QED
    BY <2>1, <2>2
<1> QED
    BY <1>2, <1>3, <1>4

----------------------------------------------------------------------------
(***************************************************************************)
(* G&SR-2.  That a content was acknowledged by both roles is never undone, *)
(* and every decision, queued row and sealed candidate carries it along.   *)
(***************************************************************************)
Covered(c) ==
    c.demands \cap SignalWork # {}
    => \E q \in Plans : plans[q] # None /\ plans[q].content = c /\ acks[q] = SignalRole

CoverInv ==
    /\ CarriedBy({p \in Plans : plans[p] # None /\ Covered(plans[p].content)})
    /\ \A r \in Runs : \A c \in runs[r].accepted :
         runs[r].status = "RUNNING" /\ c.passed => Covered(c.content)

\* All ten checks pass a candidate with signalling work only on two acknowledgments.
LEMMA VerdictCovered ==
    ASSUME NEW c, TRUE \in Verdicts(c)
    PROVE  Covered(c)
<1> SUFFICES ASSUME NeedsAck(c) PROVE \E q \in Plans : /\ plans[q] # None
                                                       /\ plans[q].content = c
                                                       /\ acks[q] = SignalRole
    BY DEF Covered, NeedsAck
<1>1. AckRecords(c) # {}
    BY DEF Verdicts
<1>2. \E a \in AckRecords(c) : a = SignalRole
    BY <1>1 DEF Verdicts
<1> QED
    BY <1>2 DEF AckRecords

\* A covered content stays covered: its plan keeps the content and the acknowledgments.
LEMMA CoverLasts ==
    ASSUME IInv, TypeOK', Lasting, NEW c, Covered(c), c.demands \cap SignalWork # {}
    PROVE  \E q \in Plans : plans'[q] # None /\ plans'[q].content = c /\ acks'[q] = SignalRole
<1>1. PICK q \in Plans : plans[q] # None /\ plans[q].content = c /\ acks[q] = SignalRole
    BY DEF Covered
<1>2. plans'[q] # None /\ plans'[q].content = c /\ acks[q] \subseteq acks'[q]
    BY <1>1 DEF Lasting
<1>3. acks'[q] \subseteq SignalRole
    BY <1>1 DEF TypeOK
<1>4. acks'[q] = SignalRole
    BY <1>1, <1>2, <1>3
<1> QED
    BY <1>2, <1>4

LEMMA CoverInvStep == IInv /\ CoverInv /\ [Next]_vars => CoverInv'
<1> SUFFICES ASSUME IInv, CoverInv, [Next]_vars PROVE CoverInv'
    OBVIOUS
<1>1. RowSteps /\ ReqSteps /\ OutboxSteps /\ RunSteps /\ Lasting /\ TypeOK'
    BY RowStepsOf, TableStepsOf, Lasts, StepInv DEF TableSteps, IInv
<1>2. \A p \in Plans : plans[p] # None /\ Covered(plans[p].content)
                       => plans'[p] # None /\ Covered(plans[p].content)'
  <2> SUFFICES ASSUME NEW p \in Plans, plans[p] # None, Covered(plans[p].content)
               PROVE  plans'[p] # None /\ Covered(plans[p].content)'
    OBVIOUS
  <2> DEFINE c == plans[p].content
  <2>1. plans'[p] # None /\ plans'[p].content = c
    BY <1>1 DEF Lasting
  <2>2. c.demands \cap SignalWork # {}
        => \E q \in Plans : plans'[q] # None /\ plans'[q].content = c /\ acks'[q] = SignalRole
    BY <1>1, CoverLasts
  <2> QED
    BY <2>1, <2>2 DEF Covered
<1>3. PICK X : X = {p \in Plans : plans[p] # None /\ Covered(plans[p].content)}
    OBVIOUS
<1>4. PICK Y : Y = {p \in Plans : plans'[p] # None /\ Covered(plans[p].content)'}
    OBVIOUS
<1>5. ASSUME NEW p \in Plans, plans[p] # None, SealedNow(p)
      PROVE  p \in Y
    BY <1>1, <1>4, <1>5 DEF SealedNow, Covered, Lasting
<1>6. ASSUME NEW p \in Plans, plans[p] = None, plans'[p] # None, BornSealed(p)
      PROVE  p \in Y
  <2>1. PICK r \in Runs : \E c \in runs[r].accepted :
           runs[r].status = "RUNNING" /\ c.passed /\ c.content = plans'[p].content
    BY <1>6 DEF BornSealed
  <2>2. PICK c \in runs[r].accepted :
           runs[r].status = "RUNNING" /\ c.passed /\ c.content = plans'[p].content
    BY <2>1
  <2>3. Covered(c.content)
    BY <2>2 DEF CoverInv
  <2>4. c.content.demands \cap SignalWork # {}
        => \E q \in Plans : plans'[q] # None /\ plans'[q].content = c.content /\ acks'[q] = SignalRole
    BY <1>1, <2>3, CoverLasts
  <2> QED
    BY <1>4, <1>6, <2>2, <2>4 DEF Covered
<1>7. CarriedBy({p \in Plans : plans[p] # None /\ Covered(plans[p].content)})'
  <2>1. CarriedBy(X)
    BY <1>3 DEF CoverInv
  <2>2. X \subseteq Y
    BY <1>2, <1>3, <1>4
  <2>3. /\ \A p \in Plans : plans'[p] # None /\ plans'[p].status \in Past => p \in Y
        /\ \A s \in Sessions : req'[s] # None /\ req'[s].op \in CoverOps => req'[s].plan \in Y
        /\ \A o \in Rows : outbox'[o] # None => outbox'[o].plan \in Y
    BY <1>5, <1>6, <2>1, <2>2, CarriedStep
  <2> QED
    BY <1>4, <2>3 DEF CarriedBy
<1>8. ASSUME NEW r \in Runs, NEW c \in runs'[r].accepted, runs'[r].status = "RUNNING", c.passed
      PROVE  /\ Covered(c.content)
             /\ c.content.demands \cap SignalWork # {}
                => \E q \in Plans : plans'[q] # None /\ plans'[q].content = c.content /\ acks'[q] = SignalRole
  <2>1. CASE runs'[r] = runs[r]
    <3>1. Covered(c.content)
      BY <1>8, <2>1 DEF CoverInv
    <3> QED
      BY <1>1, <3>1, CoverLasts
  <2>2. CASE SolveStart(r)
    <3>1. PICK ds \in SUBSET {d \in Demands : demand[d] \in {"SUBMITTED", "NORMALIZED"}} :
             \E cs \in SUBSET {e \in Offers : e.demands \subseteq ds} :
             \E verdict \in [cs -> BOOLEAN] :
               /\ \A e \in cs : verdict[e] \in Verdicts(e)
               /\ runs' = [runs EXCEPT ![r] =
                    [status |-> "RUNNING", read |-> ds,
                     accepted |-> {[content |-> e, passed |-> verdict[e]] : e \in cs}]]
      BY <2>2 DEF SolveStart
    <3>2. PICK cs \in SUBSET {e \in Offers : e.demands \subseteq ds} :
             \E verdict \in [cs -> BOOLEAN] :
               /\ \A e \in cs : verdict[e] \in Verdicts(e)
               /\ runs' = [runs EXCEPT ![r] =
                    [status |-> "RUNNING", read |-> ds,
                     accepted |-> {[content |-> e, passed |-> verdict[e]] : e \in cs}]]
      BY <3>1
    <3>3. PICK verdict \in [cs -> BOOLEAN] :
               /\ \A e \in cs : verdict[e] \in Verdicts(e)
               /\ runs' = [runs EXCEPT ![r] =
                    [status |-> "RUNNING", read |-> ds,
                     accepted |-> {[content |-> e, passed |-> verdict[e]] : e \in cs}]]
      BY <3>2
    <3>4. c \in {[content |-> e, passed |-> verdict[e]] : e \in cs}
      BY <1>8, <3>3 DEF IInv, TypeOK
    <3>5. PICK e \in cs : c = [content |-> e, passed |-> verdict[e]]
      BY <3>4
    <3>6. c.content = e /\ verdict[e] = TRUE
      BY <1>8, <3>5
    <3>7. Covered(c.content)
      BY <3>3, <3>6, VerdictCovered
    <3> QED
      BY <1>1, <3>7, CoverLasts
  <2> QED
    BY <1>1, <1>8, <2>1, <2>2 DEF RunSteps
<1> QED
    BY <1>7, <1>8 DEF CoverInv, Covered

\* G&SR-2: behind every sealed plan with signalling work stands a plan of the very same
\* content that a Station Master and a Controller acknowledged (validator.py:99-109).
THEOREM LifecycleSignalWorkAcknowledged == Spec => []SignalWorkAcknowledged
<1>1. Init => CoverInv
    BY DEF Init, CoverInv, CarriedBy
<1>2. CoverInv => SignalWorkAcknowledged
    BY DEF CoverInv, CarriedBy, Covered, SignalWorkAcknowledged
<1> QED
    BY <1>1, <1>2, CoverInvStep, Inductive, PTL DEF Spec

----------------------------------------------------------------------------
(***************************************************************************)
(* Past the Sentinel.  The verdict on a plan and its seal are such facts:  *)
(* the verdict is never taken back, and a seal only for a successor.       *)
(***************************************************************************)
Verdict(p) ==
    \/ plans[p].incident = None /\ plans[p].content \in vetted
    \/ plans[p].supersedes # None /\ acks[p] = SignalRole

Sealed(p) ==
    \/ HashGate(p)
    \/ /\ plans[p].seal = None
       /\ \E q \in Plans : plans[q] # None /\ plans[q].supersedes = p

SentinelInv ==
    /\ CarriedBy({p \in Plans : plans[p] # None /\ Verdict(p) /\ Sealed(p)})
    /\ \A p \in Plans :
         plans[p] # None /\ plans[p].supersedes = None /\ plans[p].incident = None
         => plans[p].content \in vetted

\* A content that was checked stays checked.
LEMMA VettedGrows == [Next]_vars => vetted \subseteq vetted'
<1>1. ASSUME NEW s \in Sessions, SessionStep(s) PROVE UNCHANGED vetted
    BY <1>1 DEF SessionStep, DecideRequest, DecideRead, ApproveCommit, AuthorizeCommit, RejectCommit,
                Decided, AcknowledgeRequest, AcknowledgeRead, AcknowledgeCommit, ReviseRequest,
                ReviseRead, ReviseCommit, TransmitRequest, TransmitRead, TransmitCommit,
                MoveRequest, MoveRead, MoveCommitted, MoveCommit, BreakdownRequest, BreakdownRead,
                BreakdownReplanned, BreakdownCommit, BreakdownUnplanned, BreakdownWithoutPlan,
                LogIncident, Abort, tables
<1>2. ASSUME NEW r \in Runs, RunStep(r) PROVE vetted \subseteq vetted'
    BY <1>2 DEF RunStep, SolveStart, SolveNothing, SolveEscalate, SolveCommit
<1>3. ASSUME BridgeStep PROVE UNCHANGED vetted
    BY <1>3 DEF BridgeStep, BridgeRead, BridgeRefuse, BridgeCommit, BridgeAbort, tables
<1> QED
    BY <1>1, <1>2, <1>3 DEF Next, Ripen, AcknowledgeIncident, Ingest, vars

LEMMA VerdictLasts ==
    ASSUME IInv, TypeOK', [Next]_vars, NEW p \in Plans, plans[p] # None, Verdict(p)
    PROVE  Verdict(p)'
<1>1. RowSteps /\ Lasting /\ vetted \subseteq vetted'
    BY RowStepsOf, Lasts, VettedGrows
<1>2. SameOrigin(plans'[p], plans[p])
    BY <1>1 DEF RowSteps, Written, SameOrigin
<1>3. acks[p] = SignalRole => acks'[p] = SignalRole
    BY <1>1 DEF Lasting, TypeOK
<1> QED
    BY <1>1, <1>2, <1>3 DEF Verdict, SameOrigin

\* Only a revision takes a seal away, and it leaves its own row behind.
LEMMA SealLasts ==
    ASSUME IInv, [Next]_vars, NEW p \in Plans, plans[p] # None, Sealed(p)
    PROVE  Sealed(p)'
<1>1. RowSteps /\ Lasting
    BY RowStepsOf, Lasts
<1>2. ASSUME NEW q \in Plans, plans[q] # None, plans[q].supersedes = p
      PROVE  plans'[q] # None /\ plans'[q].supersedes = p
    BY <1>1, <1>2 DEF Lasting
<1>3. plans'[p].content = plans[p].content
    BY <1>1 DEF Lasting
<1>4. \/ plans'[p].seal = plans[p].seal
      \/ plans'[p].seal = None /\ RevisedNow(p)
      \/ plans'[p].seal = plans[p].content
    BY <1>1 DEF RowSteps, Written, SignedIn, MovedIn, GrantedBy, Withdrawn, SealedNow
<1> QED
    BY <1>2, <1>3, <1>4 DEF Sealed, HashGate, RevisedNow

LEMMA SentinelInvStep == IInv /\ ReplanInv /\ SentinelInv /\ [Next]_vars => SentinelInv'
<1> SUFFICES ASSUME IInv, ReplanInv, SentinelInv, [Next]_vars PROVE SentinelInv'
    OBVIOUS
<1>1. RowSteps /\ Lasting /\ TypeOK' /\ vetted \subseteq vetted'
    BY RowStepsOf, Lasts, VettedGrows, StepInv DEF IInv
<1>2. PICK X : X = {p \in Plans : plans[p] # None /\ Verdict(p) /\ Sealed(p)}
    OBVIOUS
<1>3. PICK Y : Y = {p \in Plans : plans'[p] # None /\ Verdict(p)' /\ Sealed(p)'}
    OBVIOUS
<1>4. ASSUME NEW p \in Plans, plans[p] # None, SealedNow(p)
      PROVE  p \in Y
  <2>1. SameOrigin(plans'[p], plans[p])
    BY <1>1, <1>4 DEF RowSteps, Written, SameOrigin
  <2>2. plans[p].supersedes = None => plans[p].incident = None
    BY <1>4 DEF SealedNow, ReplanInv, ReplanWaits
  <2>3. plans[p].supersedes = None => plans[p].content \in vetted
    BY <1>4, <2>2 DEF SentinelInv
  <2>4. Verdict(p)'
    BY <1>1, <1>4, <2>1, <2>2, <2>3 DEF Verdict, SealedNow, SameOrigin
  <2>5. Sealed(p)'
    BY <1>4, <2>1 DEF Sealed, HashGate, SealedNow, SameOrigin
  <2> QED
    BY <1>1, <1>3, <1>4, <2>4, <2>5 DEF Lasting
<1>5. ASSUME NEW p \in Plans, plans[p] = None, plans'[p] # None, BornSealed(p)
      PROVE  p \in Y
    BY <1>3, <1>5 DEF BornSealed, OfTheSolver, Verdict, Sealed, HashGate
<1>6. CarriedBy({p \in Plans : plans[p] # None /\ Verdict(p) /\ Sealed(p)})'
  <2>1. CarriedBy(X)
    BY <1>2 DEF SentinelInv
  <2>2. X \subseteq Y
    BY <1>1, <1>2, <1>3, VerdictLasts, SealLasts DEF Lasting
  <2>3. /\ \A p \in Plans : plans'[p] # None /\ plans'[p].status \in Past => p \in Y
        /\ \A s \in Sessions : req'[s] # None /\ req'[s].op \in CoverOps => req'[s].plan \in Y
        /\ \A o \in Rows : outbox'[o] # None => outbox'[o].plan \in Y
    BY <1>4, <1>5, <2>1, <2>2, CarriedStep
  <2> QED
    BY <1>3, <2>3 DEF CarriedBy
<1>7. ASSUME NEW p \in Plans, plans'[p] # None, plans'[p].supersedes = None, plans'[p].incident = None
      PROVE  plans'[p].content \in vetted'
  <2>1. CASE plans[p] # None
    <3>1. SameOrigin(plans'[p], plans[p])
      BY <1>1, <2>1 DEF RowSteps, Written, SameOrigin
    <3> QED
      BY <1>1, <1>7, <2>1, <3>1 DEF SameOrigin, SentinelInv
  <2>2. CASE plans[p] = None
    BY <1>1, <1>7, <2>2, StoreAssumption DEF RowSteps, Born, BornSealed, BornProvisional, OfTheSolver
  <2> QED
    BY <2>1, <2>2
<1> QED
    BY <1>6, <1>7 DEF SentinelInv

\* Every plan past the Sentinel got there by the ten checks on a plan of the solver or by
\* both acknowledgments of a revision, and carries the seal of its content until somebody
\* revises it (coa_adapter.py:56-61, plans.py:316-321).
THEOREM LifecyclePastTheSentinel == Spec => []PastTheSentinel
<1>1. Init => ReplanInv /\ SentinelInv
    BY DEF Init, ReplanInv, ReplanWaits, SentinelInv, CarriedBy
<1>2. SentinelInv => PastTheSentinel
    BY DEF SentinelInv, CarriedBy, Verdict, Sealed, PastTheSentinel
<1> QED
    BY <1>1, <1>2, ReplanInvStep, SentinelInvStep, Inductive, PTL DEF Spec

----------------------------------------------------------------------------
(***************************************************************************)
(* One acknowledgment, one transmission.  A plan becomes TRANSMITTED_COA   *)
(* only in a commit of the bridge, and that commit ends the iteration: the *)
(* plan of the row in hand has not been transmitted meanwhile.             *)
(***************************************************************************)
HandInv ==
    bridge # None /\ bridge.first # None
    => plans[outbox[bridge.first].plan].status # "TRANSMITTED_COA"

LEMMA TransmittedByBridge ==
    ASSUME IInv, [Next]_vars, NEW p \in Plans, TransmittedNow(p)
    PROVE  BridgeCommit /\ \E o \in Rows : AckedNow(o) /\ outbox[o].plan = p
<1>1. plans[p] # None /\ Written(p)
    BY RowStepsOf DEF RowSteps, TransmittedNow, Born, BornSealed, BornProvisional
<1> QED
    BY <1>1 DEF TransmittedNow, Written, SignedIn, MovedIn, GrantedBy, Withdrawn, SealedNow

\* An iteration stays in hand until it ends.
LEMMA BridgeSteps ==
    ASSUME [Next]_vars
    PROVE  bridge' = bridge \/ bridge' = None \/ BridgeRead
<1>1. ASSUME NEW s \in Sessions, SessionStep(s) PROVE UNCHANGED bridge
    BY <1>1 DEF SessionStep, DecideRequest, DecideRead, ApproveCommit, AuthorizeCommit, RejectCommit,
                Decided, AcknowledgeRequest, AcknowledgeRead, AcknowledgeCommit, ReviseRequest,
                ReviseRead, ReviseCommit, TransmitRequest, TransmitRead, TransmitCommit,
                MoveRequest, MoveRead, MoveCommitted, MoveCommit, BreakdownRequest, BreakdownRead,
                BreakdownReplanned, BreakdownCommit, BreakdownUnplanned, BreakdownWithoutPlan,
                LogIncident, Abort
<1>2. ASSUME NEW r \in Runs, RunStep(r) PROVE UNCHANGED bridge
    BY <1>2 DEF RunStep, SolveStart, SolveNothing, SolveEscalate, SolveCommit
<1>3. ASSUME BridgeStep PROVE bridge' = None \/ BridgeRead
    BY <1>3 DEF BridgeStep, BridgeRefuse, BridgeCommit, BridgeAbort
<1> QED
    BY <1>1, <1>2, <1>3 DEF Next, Ripen, AcknowledgeIncident, Ingest, vars

LEMMA HandInvStep == IInv /\ HandInv /\ [Next]_vars => HandInv'
<1> SUFFICES ASSUME IInv, HandInv, [Next]_vars, bridge' # None, bridge'.first # None
             PROVE  plans'[outbox'[bridge'.first].plan].status # "TRANSMITTED_COA"
    BY DEF HandInv
<1>1. RowSteps /\ OutboxSteps
    BY RowStepsOf, TableStepsOf DEF TableSteps
<1>2. ASSUME NEW o \in Rows, outbox[o] # None,
             plans[outbox[o].plan].status # "TRANSMITTED_COA"
      PROVE  plans'[outbox'[o].plan].status # "TRANSMITTED_COA"
  <2>1. outbox[o].plan \in Plans /\ plans[outbox[o].plan] # None
    BY <1>2 DEF IInv, TypeOK, OutboxRow, Queued
  <2>2. outbox'[o].plan = outbox[o].plan /\ plans'[outbox[o].plan] # None
    BY <1>1, <1>2, <2>1 DEF OutboxSteps, RowSteps
  <2>3. ~BridgeCommit
    BY DEF BridgeCommit
  <2> QED
    BY <1>2, <2>1, <2>2, <2>3, TransmittedByBridge DEF TransmittedNow
<1>3. CASE bridge' = bridge
  <2>1. bridge.first \in Rows /\ outbox[bridge.first] # None
    BY <1>3 DEF IInv, TypeOK, Iteration, InHand, Waiting
  <2> QED
    BY <1>2, <1>3, <2>1 DEF HandInv
<1>4. CASE BridgeRead
  <2>1. PICK o \in AllowedRows : bridge'.first = o
    BY <1>4 DEF BridgeRead
  <2>2. o \in Rows /\ outbox[o] # None /\ plans[outbox[o].plan].status # "TRANSMITTED_COA"
    BY <2>1 DEF AllowedRows, Due, Allowed
  <2> QED
    BY <1>2, <2>1, <2>2
<1> QED
    BY <1>3, <1>4, BridgeSteps

\* A row is acknowledged in the commit of an iteration alone.
LEMMA AckedByBridge ==
    ASSUME IInv, [Next]_vars, NEW o \in Rows, AckedNow(o)
    PROVE  BridgeCommit
<1>1. outbox'[o] # outbox[o]
    BY DEF AckedNow
<1>2. ~\E s \in Sessions : TransmitCommit(s)
  <2> SUFFICES ASSUME NEW s \in Sessions, TransmitCommit(s) PROVE FALSE
    OBVIOUS
  <2>1. PICK r \in Rows : /\ outbox[r] = None
                          /\ outbox' = [outbox EXCEPT ![r] = [plan |-> req[s].plan, state |-> "PENDING",
                                                              attempts |-> 0, due |-> FALSE]]
    BY DEF TransmitCommit
  <2>2. o = r /\ outbox'[o].state = "PENDING"
    BY <1>1, <2>1 DEF IInv, TypeOK
  <2> QED
    BY <2>2 DEF AckedNow
<1>3. ~\E r \in Rows : Ripen(r)
  <2> SUFFICES ASSUME NEW r \in Rows, Ripen(r) PROVE FALSE
    OBVIOUS
  <2>1. o = r /\ outbox[o] # None /\ outbox'[o] = [outbox[o] EXCEPT !.due = TRUE]
    BY <1>1 DEF Ripen, IInv, TypeOK
  <2>2. outbox[o] \in OutboxRow
    BY <2>1 DEF IInv, TypeOK
  <2>3. outbox'[o].state = outbox[o].state
    BY <2>1, <2>2 DEF OutboxRow
  <2> QED
    BY <2>1, <2>3 DEF AckedNow
<1>4. ~BridgeRefuse
  <2> SUFFICES ASSUME BridgeRefuse PROVE FALSE
    OBVIOUS
  <2>1. o \in bridge.refused /\ outbox'[o] = [outbox[o] EXCEPT !.attempts = outbox[o].attempts + 1]
    BY <1>1 DEF BridgeRefuse
  <2>2. Waiting(o)
    BY <2>1 DEF IInv, InHand, BridgeRefuse
  <2>3. outbox[o] \in OutboxRow
    BY <2>2 DEF IInv, TypeOK, Waiting
  <2>4. outbox'[o].state = outbox[o].state
    BY <2>1, <2>3 DEF OutboxRow
  <2> QED
    BY <2>2, <2>4 DEF AckedNow, Waiting
<1>5. ~\E s \in Sessions : SessionStep(s)
  <2> SUFFICES ASSUME NEW s \in Sessions, SessionStep(s) PROVE FALSE
    OBVIOUS
  <2>1. UNCHANGED outbox
    BY <1>2 DEF SessionStep, DecideRequest, DecideRead, ApproveCommit, AuthorizeCommit, RejectCommit,
                Decided, AcknowledgeRequest, AcknowledgeRead, AcknowledgeCommit, ReviseRequest,
                ReviseRead, ReviseCommit, TransmitRequest, TransmitRead, MoveRequest, MoveRead,
                MoveCommitted, MoveCommit, BreakdownRequest, BreakdownRead, BreakdownReplanned,
                BreakdownCommit, BreakdownUnplanned, BreakdownWithoutPlan, LogIncident, Abort, tables
  <2> QED
    BY <1>1, <2>1
<1>6. ~\E r \in Runs : RunStep(r)
    BY <1>1 DEF RunStep, SolveStart, SolveNothing, SolveEscalate, SolveCommit
<1> QED
    BY <1>1, <1>3, <1>4, <1>5, <1>6
    DEF Next, AcknowledgeIncident, Ingest, BridgeStep, BridgeRead, BridgeAbort, tables, vars

\* The rows that a commit of the bridge acknowledges: waiting, of plans that were not
\* transmitted before, and one row a plan.
LEMMA OneRowAPlan ==
    ASSUME IInv, HandInv, BridgeCommit
    PROVE  /\ \A o \in Rows : AckedNow(o) => Waiting(o) /\ TransmittedNow(outbox[o].plan)
           /\ \A o, r \in Rows :
                AckedNow(o) /\ AckedNow(r) /\ outbox[o].plan = outbox[r].plan => o = r
<1>1. bridge # None /\ bridge.first # None /\ bridge \in Iteration
    BY DEF BridgeCommit, IInv, TypeOK
<1>2. PICK granted \in Answers :
        /\ outbox' = [o \in Rows |->
                        IF o \in granted THEN [outbox[o] EXCEPT !.state = "ACKED"]
                        ELSE IF o \in bridge.refused \cup bridge.rest
                        THEN [outbox[o] EXCEPT !.attempts = outbox[o].attempts + 1]
                        ELSE outbox[o]]
        /\ plans' = [p \in Plans |-> IF p \in {outbox[o].plan : o \in granted}
                                     THEN [plans[p] EXCEPT !.status = "TRANSMITTED_COA"]
                                     ELSE plans[p]]
    BY DEF BridgeCommit
<1>3. PICK m : /\ granted = {bridge.first} \cup m
               /\ \A o \in m : /\ o \in bridge.rest
                               /\ Allowed(outbox[o].plan)
                               /\ outbox[o].plan # outbox[bridge.first].plan
               /\ \A o, r \in m : outbox[o].plan = outbox[r].plan => o = r
    BY <1>2 DEF Answers
<1>4. ASSUME NEW o \in Rows, AckedNow(o)
      PROVE  o \in granted
  <2> SUFFICES ASSUME o \notin granted PROVE FALSE
    OBVIOUS
  <2>1. /\ o \in bridge.refused \cup bridge.rest
        /\ outbox'[o] = [outbox[o] EXCEPT !.attempts = outbox[o].attempts + 1]
    BY <1>2, <1>4 DEF AckedNow
  <2>2. Waiting(o)
    BY <1>1, <2>1 DEF IInv, InHand
  <2>3. outbox[o] \in OutboxRow
    BY <2>2 DEF IInv, TypeOK, Waiting
  <2>4. outbox'[o].state = outbox[o].state
    BY <2>1, <2>3 DEF OutboxRow
  <2> QED
    BY <1>4, <2>2, <2>4 DEF AckedNow, Waiting
<1>5. ASSUME NEW o \in Rows, o \in granted
      PROVE  Waiting(o) /\ TransmittedNow(outbox[o].plan)
  <2>1. Waiting(o)
    BY <1>1, <1>3, <1>5 DEF IInv, InHand
  <2>2. /\ outbox[o].plan \in Plans /\ plans[outbox[o].plan] # None
    BY <2>1 DEF Waiting, IInv, TypeOK, OutboxRow, Queued
  <2>3. plans[outbox[o].plan] \in Plan /\ None \notin Plan
    BY <2>2, PlanFields, StoreAssumption DEF IInv
  <2>4. plans[outbox[o].plan].status # "TRANSMITTED_COA"
    BY <1>1, <1>3, <1>5 DEF HandInv, Allowed
  <2>5. plans'[outbox[o].plan] = [plans[outbox[o].plan] EXCEPT !.status = "TRANSMITTED_COA"]
    BY <1>2, <1>5, <2>2
  <2>6. /\ plans'[outbox[o].plan] \in Plan
        /\ plans'[outbox[o].plan].status = "TRANSMITTED_COA"
    BY <2>3, <2>5 DEF Plan, PlanStatus
  <2> QED
    BY <2>1, <2>3, <2>4, <2>6 DEF TransmittedNow
<1> QED
    BY <1>3, <1>4, <1>5

\* Every transmission has an acknowledgment of its own, and every acknowledgment a
\* transmission, however often a plan was queued (coa_adapter.py:30-72).
THEOREM LifecycleOneAckOneTransmission == Spec => OneAckOneTransmission
<1> DEFINE OneEach ==
       /\ \A o \in Rows : AckedNow(o) => /\ outbox[o] # None /\ outbox[o].attempts < 3
                                         /\ TransmittedNow(outbox[o].plan)
       /\ \A o, r \in Rows : /\ AckedNow(o) /\ AckedNow(r)
                             /\ outbox[o].plan = outbox[r].plan
                             => o = r
       /\ \A p \in Plans : TransmittedNow(p) => \E o \in Rows : AckedNow(o) /\ outbox[o].plan = p
<1>1. Init => HandInv
    BY DEF Init, HandInv
<1>2. IInv /\ HandInv /\ [Next]_vars => OneEach
    BY AckedByBridge, OneRowAPlan, TransmittedByBridge DEF Waiting
<1> QED
    BY <1>1, <1>2, HandInvStep, Inductive, PTL DEF Spec, OneAckOneTransmission

----------------------------------------------------------------------------
(***************************************************************************)
(* Active blocks lie apart.  The exclusion constraint is checked by the    *)
(* transactions that write an active status; all others leave none behind  *)
(* that was not active before.                                             *)
(***************************************************************************)
ActiveApart ==
    \A p, q \in Plans :
        /\ plans[p] # None /\ plans[q] # None /\ p # q
        /\ plans[p].status \in ActiveStatus /\ plans[q].status \in ActiveStatus
        => ~Overlap(plans[p].content, plans[q].content)

LEMMA ActiveApartStep == IInv /\ ActiveApart /\ [Next]_vars => ActiveApart'
<1> SUFFICES ASSUME IInv, ActiveApart, [Next]_vars PROVE ActiveApart'
    OBVIOUS
<1>1. RowSteps
    BY RowStepsOf
<1>2. CASE Admissible(plans')
    BY <1>2 DEF Admissible, ActiveApart
<1>3. CASE ~Admissible(plans')
  <2>1. ASSUME NEW p \in Plans, plans'[p] # None, plans'[p].status \in ActiveStatus
        PROVE  plans'[p] = plans[p]
    <3>1. ~Born(p)
      BY <2>1 DEF Born, BornSealed, BornProvisional, ActiveStatus
    <3>2. ~Written(p)
      BY <1>3, <2>1 DEF Written, SignedIn, MovedIn, GrantedBy, Withdrawn, SealedNow, BridgeCommit,
                        ActiveStatus
    <3> QED
      BY <1>1, <2>1, <3>1, <3>2 DEF RowSteps
  <2> QED
    BY <2>1 DEF ActiveApart, Overlap
<1> QED
    BY <1>2, <1>3

\* Two blocks of one section that hold the line, or will, never overlap in time, although
\* a revived, re-timed or re-planned one was judged on an older state of the section
\* (excl_active_overlap, 02_schema_ddl.sql).
THEOREM LifecycleActiveApart == Spec => []ActiveApart
<1>1. Init => ActiveApart
    BY DEF Init, ActiveApart
<1> QED
    BY <1>1, ActiveApartStep, Inductive, PTL DEF Spec

----------------------------------------------------------------------------
(***************************************************************************)
(* The life of a plan implements the release chain.  The four milestones   *)
(* of a plan imply each other backwards, and a step passes one at most: a  *)
(* decision leaves the outbox alone, a queued row is not yet acknowledged, *)
(* and COA acknowledges only what was queued before.                       *)
(***************************************************************************)
InQueue(p) == \E o \in Rows : outbox[o] # None /\ outbox[o].plan = p

\* Nobody authorises what nobody decided.
Ordered == \A p \in Plans : plans[p] # None /\ plans[p].authorizedBy # None => plans[p].decidedBy # None

ChainInv == IInv /\ Ordered

LEMMA ChainInvStep == ChainInv /\ [Next]_vars => ChainInv'
<1> SUFFICES ASSUME IInv, Ordered, [Next]_vars PROVE Ordered'
    BY StepInv DEF ChainInv
<1>1. RowSteps
    BY RowStepsOf
<1> SUFFICES ASSUME NEW p \in Plans, plans'[p] # None, plans'[p].authorizedBy # None
             PROVE  plans'[p].decidedBy # None
    BY DEF Ordered
<1>2. CASE plans'[p] = plans[p]
    BY <1>2 DEF Ordered
<1>3. CASE plans[p] = None /\ Born(p)
    BY <1>3 DEF Born, NoHands
<1>4. CASE plans[p] # None /\ Written(p)
  <2>1. ASSUME NEW s \in Sessions, req[s] # None, req[s].plan = p, SignedIn(s, plans'[p], plans[p])
        PROVE  plans'[p].decidedBy # None
    BY <1>4, <2>1 DEF SignedIn, Serving, IInv, Vouched, VouchedReq
  <2> QED
    BY <1>4, <2>1 DEF Written, MovedIn, GrantedBy, Withdrawn, SealedNow, SameHands, Ordered
<1> QED
    BY <1>1, <1>2, <1>3, <1>4 DEF RowSteps

\* The stage of a plan, in terms of its milestones.
LEMMA StageCases ==
    ASSUME ChainInv, NEW p \in Plans
    PROVE  /\ Acked(p) => InQueue(p)
           /\ InQueue(p) => plans[p] # None /\ Signed(p)
           /\ plans[p] = None => Stage(p) = 0
           /\ plans[p] # None =>
              /\ Acked(p) => Stage(p) = 4
              /\ InQueue(p) /\ ~Acked(p) => Stage(p) = 3
              /\ ~InQueue(p) /\ plans[p].authorizedBy # None => Stage(p) = 2
              /\ ~InQueue(p) /\ plans[p].authorizedBy = None /\ plans[p].decidedBy # None => Stage(p) = 1
              /\ plans[p].authorizedBy = None /\ plans[p].decidedBy = None => Stage(p) = 0
<1>1. Acked(p) => InQueue(p)
    BY DEF Acked, InQueue
<1>2. InQueue(p) => plans[p] # None /\ Signed(p)
    BY DEF InQueue, ChainInv, IInv, Queued
<1>3. QueuedFor(p) # {} <=> InQueue(p)
    BY DEF QueuedFor, InQueue
<1>4. (\E o \in QueuedFor(p) : outbox[o].state = "ACKED") <=> Acked(p)
    BY DEF QueuedFor, Acked
<1> QED
    BY <1>1, <1>2, <1>3, <1>4 DEF Stage, Signed

\* What a step does to the milestones of a plan that exists.
LEMMA MilestoneStep ==
    ASSUME ChainInv, ChainInv', [Next]_vars, NEW p \in Plans, plans[p] # None
    PROVE  /\ plans'[p] # None
           /\ Acked(p) => Acked(p)'
           /\ InQueue(p) => InQueue(p)'
           /\ ~InQueue(p) => ~Acked(p)'
           /\ \/ SameHands(plans'[p], plans[p]) /\ (InQueue(p)' <=> InQueue(p))
              \/ SameHands(plans'[p], plans[p]) /\ InQueue(p)' /\ Signed(p)
              \/ /\ UNCHANGED outbox
                 /\ plans'[p].decidedBy # None
                 /\ plans'[p].authorizedBy = plans[p].authorizedBy
              \/ /\ UNCHANGED outbox
                 /\ plans[p].decidedBy # None
                 /\ plans'[p].authorizedBy # None
                 /\ plans'[p].decidedBy = plans[p].decidedBy
<1>1. RowSteps /\ OutboxSteps
    BY RowStepsOf, TableStepsOf DEF TableSteps, ChainInv
<1>2. plans'[p] # None
    BY <1>1 DEF RowSteps
<1>3. (Acked(p) => Acked(p)') /\ (InQueue(p) => InQueue(p)')
    BY <1>1 DEF OutboxSteps, Acked, InQueue
<1>4. ~InQueue(p) => ~Acked(p)'
    BY <1>1 DEF OutboxSteps, Acked, InQueue
<1>5. InQueue(p)' => InQueue(p) \/ UNCHANGED plans
    BY <1>1 DEF OutboxSteps, InQueue, TransmitCommit
<1>6. CASE UNCHANGED plans
    <2>1. SameHands(plans'[p], plans[p])
      BY <1>6 DEF SameHands
    <2>2. InQueue(p)' => Signed(p)
      BY <1>6, StageCases DEF ChainInv, IInv, Queued, InQueue, Signed
    <2> QED
      BY <1>2, <1>3, <1>4, <2>1, <2>2
<1>7. CASE ~UNCHANGED plans
  <2>1. InQueue(p)' <=> InQueue(p)
    BY <1>3, <1>5, <1>7
  <2>2. ASSUME NEW s \in Sessions, req[s] # None, req[s].plan = p, SignedIn(s, plans'[p], plans[p])
        PROVE  \/ /\ UNCHANGED outbox
                  /\ plans'[p].decidedBy # None
                  /\ plans'[p].authorizedBy = plans[p].authorizedBy
               \/ /\ UNCHANGED outbox
                  /\ plans[p].decidedBy # None
                  /\ plans'[p].authorizedBy # None
                  /\ plans'[p].decidedBy = plans[p].decidedBy
    BY <2>2 DEF SignedIn, Serving, ChainInv, IInv, Vouched, VouchedReq
  <2>3. \/ SameHands(plans'[p], plans[p])
        \/ \E s \in Sessions : req[s] # None /\ req[s].plan = p /\ SignedIn(s, plans'[p], plans[p])
    BY <1>1 DEF RowSteps, Written, MovedIn, GrantedBy, Withdrawn, SealedNow, SameHands
  <2> QED
    BY <1>2, <1>3, <1>4, <2>1, <2>2, <2>3
<1> QED
    BY <1>6, <1>7

LEMMA StageStep ==
    ASSUME ChainInv, ChainInv', [Next]_vars, NEW p \in Plans
    PROVE  Stage(p)' = Stage(p) \/ (Stage(p) \in 0..3 /\ Stage(p)' = Stage(p) + 1)
<1>1. CASE plans[p] = None
  <2>1. Stage(p) = 0
    BY <1>1, StageCases
  <2>2. plans'[p] = None \/ NoHands(plans'[p])
    BY <1>1, RowStepsOf DEF RowSteps, Born, ChainInv
  <2>3. Stage(p)' = 0
    BY <2>2 DEF Stage, QueuedFor, NoHands, ChainInv, IInv, Queued, Signed
  <2> QED
    BY <2>1, <2>3
<1>2. CASE plans[p] # None
  <2> DEFINE d == plans[p].decidedBy # None
             a == plans[p].authorizedBy # None
  <2>1. /\ plans'[p] # None
        /\ Acked(p) => Acked(p)'
        /\ InQueue(p) => InQueue(p)'
        /\ ~InQueue(p) => ~Acked(p)'
    BY <1>2, MilestoneStep
  <2>2. /\ Acked(p)' => InQueue(p)' /\ Stage(p)' = 4
        /\ InQueue(p)' => Signed(p)'
        /\ InQueue(p)' /\ ~Acked(p)' => Stage(p)' = 3
        /\ ~InQueue(p)' /\ plans'[p].authorizedBy # None => Stage(p)' = 2
        /\ ~InQueue(p)' /\ plans'[p].authorizedBy = None /\ plans'[p].decidedBy # None => Stage(p)' = 1
        /\ plans'[p].authorizedBy = None /\ plans'[p].decidedBy = None => Stage(p)' = 0
    BY <2>1 DEF Stage, QueuedFor, Acked, InQueue, ChainInv, IInv, Queued, Signed
  <2>3. a => d
    BY <1>2 DEF ChainInv, Ordered
  <2>4. CASE SameHands(plans'[p], plans[p]) /\ (InQueue(p)' <=> InQueue(p))
    BY <1>2, <2>1, <2>2, <2>4, StageCases DEF SameHands, Signed
  <2>5. CASE SameHands(plans'[p], plans[p]) /\ InQueue(p)' /\ Signed(p)
    BY <1>2, <2>1, <2>2, <2>5, StageCases DEF SameHands, Signed
  <2>6. ASSUME UNCHANGED outbox
        PROVE  (InQueue(p)' <=> InQueue(p)) /\ (Acked(p)' <=> Acked(p))
    BY <2>6 DEF InQueue, Acked
  <2>7. CASE UNCHANGED outbox /\ plans'[p].decidedBy # None
             /\ plans'[p].authorizedBy = plans[p].authorizedBy
    BY <1>2, <2>1, <2>2, <2>3, <2>6, <2>7, StageCases DEF Signed
  <2>8. CASE UNCHANGED outbox /\ plans[p].decidedBy # None /\ plans'[p].authorizedBy # None
             /\ plans'[p].decidedBy = plans[p].decidedBy
    BY <1>2, <2>1, <2>2, <2>3, <2>6, <2>8, StageCases DEF Signed
  <2> QED
    BY <1>2, <2>4, <2>5, <2>7, <2>8, MilestoneStep
<1> QED
    BY <1>1, <1>2

\* The line is granted by activate alone, to a plan that COA acknowledged.
LEMMA GrantStep ==
    ASSUME ChainInv, [Next]_vars, NEW p \in Plans,
           plans'[p] # None, plans'[p].status = "ACTIVE_GRANTED",
           ~(plans[p] # None /\ plans[p].status = "ACTIVE_GRANTED")
    PROVE  Stage(p) = 4
<1>1. plans[p] # None /\ Written(p)
    BY RowStepsOf DEF RowSteps, Born, BornSealed, BornProvisional, ChainInv
<1>2. PICK s \in Sessions : req[s] # None /\ req[s].plan = p /\ MovedIn(s, plans'[p], plans[p])
    BY <1>1 DEF Written, SignedIn, GrantedBy, Withdrawn, SealedNow
<1>3. req[s].op = "activate"
    BY <1>2 DEF MovedIn, Serving
<1>4. Acked(p)
    BY <1>2, <1>3 DEF ChainInv, IInv, Vouched, VouchedReq
<1> QED
    BY <1>1, <1>4, StageCases

LEMMA ChainStep ==
    ASSUME ChainInv, ChainInv', [Next]_vars
    PROVE  Chain!Next
<1> DEFINE stage == [p \in Plans |-> Stage(p)]
           granted == {p \in Plans : plans[p] # None /\ plans[p].status = "ACTIVE_GRANTED"}
           ps == {p \in Plans : Stage(p)' # Stage(p)}
<1>1. Chain!Advance(ps)
  <2>1. \A p \in ps : Stage(p) < 4
    BY StageStep
  <2>2. \A p \in Plans : Stage(p)' = IF p \in ps THEN Stage(p) + 1 ELSE Stage(p)
    BY StageStep
  <2>3. \A p \in ps : stage[p] < 4
    BY <2>1
  <2>4. stage' = [p \in Plans |-> Stage(p)']
    OBVIOUS
  <2>5. stage' = [p \in Plans |-> IF p \in ps THEN stage[p] + 1 ELSE stage[p]]
    BY <2>2, <2>4
  <2> QED
    BY <2>3, <2>5 DEF Chain!Advance
<1>2. Chain!Regrant
  <2>1. \A p \in granted' \ granted : stage[p] = 4
    BY GrantStep
  <2>2. granted' \subseteq Plans
    OBVIOUS
  <2> QED
    BY <2>1, <2>2 DEF Chain!Regrant
<1> QED
    BY <1>1, <1>2 DEF Chain!Next

\* Whatever interleaving of handlers, bridge, breakdowns and solves: every plan passes the
\* four milestones in order and keeps them, and holds the line only after the fourth.
THEOREM LifecycleMilestonesInOrder == Spec => MilestonesInOrder
<1>1. Init => ChainInv /\ Chain!Init
    BY InitInv DEF Init, ChainInv, Ordered, Chain!Init, Stage
<1>2. ChainInv /\ [Next]_vars => [Chain!Next]_(Chain!vars)
    BY ChainInvStep, ChainStep
<1> QED
    BY <1>1, <1>2, ChainInvStep, PTL DEF Spec, MilestonesInOrder, Chain!Spec
============================================================================
