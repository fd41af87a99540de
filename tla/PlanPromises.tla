---------------------------- MODULE PlanPromises ----------------------------
(***************************************************************************)
(* What the documents and the comments of the repository say of the plan   *)
(* life cycle and the code does not keep.                                  *)
(***************************************************************************)
EXTENDS PlanLifecycle

\* NFR-007: a plan that reaches TRANSMITTED_COA carries a content_hash equal to its
\* sentinel_hash.  process_outbox (coa_adapter.py:56-61) looks at the status it read
\* and not at the hash, so a revision committed meanwhile leaves the plan unsealed.
TransmittedIsSealed ==
    \A p \in Plans : plans[p] # None /\ plans[p].status = "TRANSMITTED_COA" => HashGate(p)

\* Every plan in a console carries a Sentinel verdict on its very content.  A revision
\* is sealed by its two acknowledgments alone (plans.py:316-321): its new window is
\* never put to the ten checks.
SealedWasVetted ==
    \A p \in Plans :
        plans[p] # None /\ plans[p].status = "SENTINEL_PASSED" => plans[p].content \in vetted

\* A block revoked by the Emergency Service is not silently authorised again.  activate
\* (plans.py:406-410) and process_outbox write over the revocation they did not read.
RevokedStaysRevoked ==
    [][\A p \in Plans :
         plans[p] # None /\ plans[p].status = "SUPERSEDED_EMERGENCY"
         => plans'[p].status \notin ActiveStatus]_vars

\* The demands of a revoked block drop back to SUBMITTED, or serve the emergency plan
\* that takes its place: issue_advisory_revocation (emergency_service.py:87-107).
DisplacedWorkReenters ==
    [][\A p \in Plans :
         plans[p] # None /\ plans[p].status # "SUPERSEDED_EMERGENCY"
         /\ plans'[p].status = "SUPERSEDED_EMERGENCY"
         => \A d \in plans[p].content.demands : demand'[d] \in {"SUBMITTED", "SCHEDULED_DRAFT"}]_vars

\* The people who transmit do so when they may, and their requests do not fail for ever.
TransmitFairSpec ==
    /\ FairSpec
    /\ \A s \in Sessions : WF_vars(TransmitRequest(s)) /\ SF_vars(TransmitCommit(s))

\* The Controller's acknowledgment enables the transmission of the PROVISIONAL plan: it
\* leaves that state in the end (routers/emergency.py:186-207, plans.py:361-396).
AcknowledgedIsTransmitted ==
    \A p \in Plans :
        (Provisional(p) /\ incidents[plans[p].incident].acked) ~> ~Provisional(p)
============================================================================
