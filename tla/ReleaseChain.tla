---------------------------- MODULE ReleaseChain ----------------------------
(***************************************************************************)
(* What the approval chain promises about each block plan, apart from how  *)
(* its handlers interleave: it passes four milestones in this order, one   *)
(* at a time, and never loses one,                                         *)
(*     1  a Sr. DOM decided        (decided_by is set)                     *)
(*     2  a DRM authorised         (authorized_by is set)                  *)
(*     3  the plan was queued      (a row of coa_outbox)                   *)
(*     4  COA acknowledged it      (that row is ACKED)                     *)
(* and the line is granted to it only after the fourth.                    *)
(***************************************************************************)
EXTENDS Naturals

CONSTANT Plans

VARIABLES
    stage,      \* the milestones each plan has passed
    granted     \* the plans that hold the line

vars == <<stage, granted>>

Init ==
    /\ stage = [p \in Plans |-> 0]
    /\ granted = {}

\* One COA iteration may acknowledge several plans, so a set of plans advances.
Advance(ps) ==
    /\ \A p \in ps : stage[p] < 4
    /\ stage' = [p \in Plans |-> IF p \in ps THEN stage[p] + 1 ELSE stage[p]]

\* Plans lose the line at any time (completion, revocation, the second answer to a plan
\* that is queued twice), and get it at stage 4.
Regrant ==
    /\ granted' \subseteq Plans
    /\ \A p \in granted' \ granted : stage[p] = 4

Next == Regrant /\ \E ps \in SUBSET Plans : Advance(ps)

Spec == Init /\ [][Next]_vars
============================================================================
