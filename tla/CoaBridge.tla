----------------------------- MODULE CoaBridge -----------------------------
(***************************************************************************)
(* The COA bridge: outbox_bridge_loop (apps/api/main.py) runs              *)
(* process_outbox (services/coa_adapter.py) every two seconds, each time   *)
(* in one transaction.  The rows are read and answered one after another;  *)
(* the first acknowledgment appends to the ledger, whose lock is then held *)
(* until the commit, so that no other transaction commits before the       *)
(* remaining rows are read.  Only the rows up to the first allowed one can *)
(* be judged by a plan status that is stale at the commit.                 *)
(***************************************************************************)
EXTENDS PlanStore

\* The COA round trip of the row has taken ack_delay_seconds.
Ripen(o) ==
    /\ outbox[o] # None
    /\ ~outbox[o].due
    /\ outbox' = [outbox EXCEPT ![o].due = TRUE]
    /\ UNCHANGED <<plans, demand, acks, keys, incidents, runs, req, bridge, vetted, effects>>

\* MUTANT of Due: attempts < 3 is dropped from the SELECT.
DueForEver == {o \in Rows : outbox[o] # None /\ outbox[o].state = "PENDING" /\ outbox[o].due}

\* MUTANT of Due: the age of a row is compared the wrong way round.
DueWhileFresh == {o \in Rows : /\ outbox[o] # None
                               /\ outbox[o].state = "PENDING"
                               /\ outbox[o].attempts < 3
                               /\ ~outbox[o].due}

Due == {o \in Rows : /\ outbox[o] # None
                     /\ outbox[o].state = "PENDING"
                     /\ outbox[o].attempts < 3
                     /\ outbox[o].due}

\* A PROVISIONAL plan may go out once the Controller acknowledged its incident.
Allowed(p) ==
    \/ plans[p].status = "AUTHORIZED_DRM"
    \/ /\ plans[p].status = "PROVISIONAL"
       /\ incidents[plans[p].incident].acked

AllowedRows == {o \in Due : Allowed(outbox[o].plan)}

\* The SELECT of the due rows, and the answers up to the first row it allows.  The
\* SELECT has no ORDER BY: any refusable rows may come first.
BridgeRead ==
    /\ bridge = None
    /\ Due # {}
    /\ \E refused \in SUBSET (Due \ AllowedRows) :
         \/ /\ AllowedRows = {}
            /\ refused = Due
            /\ bridge' = [refused |-> refused, first |-> None, rest |-> {}]
         \/ \E o \in AllowedRows :
              bridge' = [refused |-> refused, first |-> o, rest |-> Due \ (refused \cup {o})]
    /\ UNCHANGED <<tables, req>>

\* MUTANT of Answers: the remaining rows are acknowledged without a look at their plan.
AnswersUnread == {{bridge.first} \cup bridge.rest}

\* MUTANT of Answers: the remaining rows are judged before the first plan is transmitted.
AnswersAtOnce == {{bridge.first} \cup {o \in bridge.rest : Allowed(outbox[o].plan)}}

\* The rows an iteration acknowledges: the first, on the status read before; of the
\* rest, one row of each plan that is allowed once the first plan is transmitted.
Answers ==
    LET open == {o \in bridge.rest : /\ Allowed(outbox[o].plan)
                                     /\ outbox[o].plan # outbox[bridge.first].plan}
    IN {{bridge.first} \cup more :
          more \in {m \in SUBSET open :
                      /\ \A o, r \in m : outbox[o].plan = outbox[r].plan => o = r
                      /\ \A o \in open : \E r \in m : outbox[o].plan = outbox[r].plan}}

\* An iteration that allowed no row only counts its refusals.
BridgeRefuse ==
    /\ bridge # None
    /\ bridge.first = None
    /\ outbox' = [o \in Rows |-> IF o \in bridge.refused
                                 THEN [outbox[o] EXCEPT !.attempts = @ + 1]
                                 ELSE outbox[o]]
    /\ bridge' = None
    /\ UNCHANGED <<plans, demand, acks, keys, incidents, runs, req, vetted, effects>>

\* The acknowledgments: the UPDATE of the plan names its id alone, and that of the
\* demands does not look at their status.
BridgeCommit ==
    /\ bridge # None
    /\ bridge.first # None
    /\ \E granted \in Answers :
         LET sent == {outbox[o].plan : o \in granted}
         IN /\ outbox' = [o \in Rows |->
                            IF o \in granted THEN [outbox[o] EXCEPT !.state = "ACKED"]
                            ELSE IF o \in bridge.refused \cup bridge.rest
                            THEN [outbox[o] EXCEPT !.attempts = @ + 1]
                            ELSE outbox[o]]
            /\ plans' = [p \in Plans |-> IF p \in sent
                                         THEN [plans[p] EXCEPT !.status = "TRANSMITTED_COA"]
                                         ELSE plans[p]]
            /\ demand' = MoveDemands(demand, UNION {plans[p].content.demands : p \in sent},
                                     DemandStatus, "TRANSMITTED_COA")
    /\ Admissible(plans')
    /\ bridge' = None
    /\ UNCHANGED <<acks, keys, incidents, runs, req, vetted, effects>>

\* An iteration that raises is rolled back whole and logged; the loop goes on.
BridgeAbort ==
    /\ bridge # None
    /\ bridge' = None
    /\ UNCHANGED <<tables, req>>
============================================================================
