--------------------------- MODULE ApprovalsDesk ---------------------------
(***************************************************************************)
(* The approvals page of one operator                                      *)
(* (components/dashboard/atlas-approvals.tsx): the lists, the selected     *)
(* plan and its Sentinel report, the buttons of its stage, the dialog that *)
(* signs and the one that revises, and the calls under way, each of which  *)
(* goes on after its answer with a reload of the lists and of the plan it  *)
(* was about.  The dialogs lie over the page and neither trap the focus    *)
(* nor make it inert: its rows and buttons stay within reach of the        *)
(* keyboard.  Underneath, the backend takes each call whole (PlanLifecycle *)
(* opens them up), and other operators, the bridge and an emergency move   *)
(* the plans.                                                              *)
(***************************************************************************)
EXTENDS Roles, Absent

CONSTANTS Plans,
          DeskRoles,   \* the roles an instance looks at
          Starts,      \* the stages of the plans it starts from
          Slots,       \* bound: calls under way at a time
          MaxMoves,    \* bound: moves of other operators
          MaxPresses   \* bound: what the operator presses

Ladder == <<"DRAFT", "SENTINEL_PASSED", "APPROVED_SR_DOM", "AUTHORIZED_DRM",
            "TRANSMITTED_COA", "ACTIVE_GRANTED", "COMPLETED_FITNESS",
            "ARCHIVED_SEALED">>
Stages == {Ladder[i] : i \in 1..8}
              \cup {"CANCELLED", "SUPERSEDED", "SUPERSEDED_EMERGENCY"}
Early  == {"DRAFT", "SENTINEL_PASSED", "APPROVED_SR_DOM"}
Actionable == {"SENTINEL_PASSED", "APPROVED_SR_DOM"}

Row == [id : Plans, status : Stages]

VARIABLES
    role,      \* of the operator at the desk
    status,    \* plan -> its stage in the store
    acks,      \* plan -> the signal acknowledgments recorded
    moves,     \* moves of others so far
    presses,   \* presses of the operator so far
    rows,      \* plan -> its stage in the list the page holds, None before a list
    selected,  \* the row open in the detail panel, with the stage it had then
    report,    \* the plan whose Sentinel report is shown
    busyId,    \* the plan whose buttons are held
    dialogs,   \* kind of dialog -> the right it is open for, None while it is closed
    sending,   \* the kinds whose dialog waits for its answer
    calls      \* slot -> a call under way

deskVars == <<role, status, acks, moves, presses, rows, selected, report, busyId,
              dialogs, sending, calls>>

DialogOps    == {"approve_srdom", "authorize_drm", "modify"}
AckOps       == {"ack_sm", "ack_ctl"}
LifecycleOps == {"transmit", "activate", "fitness", "archive", "cancel"}
PostOps      == DialogOps \cup AckOps \cup LifecycleOps

\* One dialog signs, as Sr. DOM or as DRM, the other revises.
Kinds == {"sign", "modify"}
KindOf(op) == IF op = "modify" THEN "modify" ELSE "sign"

\* Where a call stands: its request under way, the list, the list again after an
\* error, a list asked for its own sake, the report.
Legs == {"post", "rows", "rowsAgain", "list", "report"}

\* `seen` is the stage shown when the button was pressed, `held` says that the
\* dialog the call came from is still the one on the screen, `got` is the list the
\* backend has answered and the page has not received yet.
Call == [op : PostOps \cup {"load", "open"}, plan : Plans \cup {None},
         leg : Legs, seen : Stages \cup {None}, held : BOOLEAN,
         got : [Plans -> Stages] \cup {None}]

ASSUME DeskAssumption ==
    /\ None \notin Plans \cup Stages \cup PostOps \cup Row \cup Call
    /\ DeskRoles \subseteq Roles /\ Starts \subseteq [Plans -> Stages]
    /\ MaxMoves \in Nat /\ MaxPresses \in Nat

DeskTypeOK ==
    /\ role \in DeskRoles
    /\ status \in [Plans -> Stages]
    /\ acks \in [Plans -> SUBSET AckOps]
    /\ moves \in 0..MaxMoves /\ presses \in 0..MaxPresses
    /\ rows \in [Plans -> Stages \cup {None}]
    /\ selected \in Row \cup {None}
    /\ report \in Plans \cup {None}
    /\ busyId \in Plans \cup {None}
    /\ dialogs \in [Kinds -> DialogOps \cup {None}]
    /\ sending \subseteq Kinds
    /\ calls \in [Slots -> Call \cup {None}]

Asking(op, p, leg, seen, held) ==
    [op |-> op, plan |-> p, leg |-> leg, seen |-> seen, held |-> held, got |-> None]

DeskInit ==
    /\ role \in DeskRoles
    /\ status \in Starts
    /\ acks = [p \in Plans |-> {}]
    /\ moves = 0 /\ presses = 0
    /\ rows = [p \in Plans |-> None]
    /\ selected = None /\ report = None /\ busyId = None
    /\ dialogs = [k \in Kinds |-> None] /\ sending = {}
    /\ \E i \in Slots :
          calls = [j \in Slots |-> IF j = i THEN Asking("load", None, "list", None, FALSE)
                                   ELSE None]

SetCall(i, c) == calls' = [calls EXCEPT ![i] = c]

Start(c) == \E i \in Slots : calls[i] = None /\ SetCall(i, c)
----------------------------------------------------------------------------
(* The page. *)

Press == presses < MaxPresses /\ presses' = presses + 1

\* Selecting a row clears the report and asks for the row's own.
Select(p, stage) == selected' = [id |-> p, status |-> stage] /\ report' = None
\* MUTANT of OpenPlan: the lists offer every plan.
OpenAnyPlan(p) ==
    /\ Press /\ rows[p] # None
    /\ Select(p, rows[p])
    /\ Start(Asking("open", p, "report", None, FALSE))
    /\ UNCHANGED <<role, status, acks, moves, rows, busyId, dialogs, sending>>

\* The lists offer the plans awaiting an acknowledgment or a signature.
OpenPlan(p) ==
    /\ Press /\ rows[p] \in Early
    /\ Select(p, rows[p])
    /\ Start(Asking("open", p, "report", None, FALSE))
    /\ UNCHANGED <<role, status, acks, moves, rows, busyId, dialogs, sending>>

PressAck(op, p) ==
    /\ Press
    /\ rows[p] = "DRAFT" /\ Can(role, op) /\ busyId # p
    /\ busyId' = p
    /\ Start(Asking(op, p, "post", "DRAFT", FALSE))
    /\ UNCHANGED <<role, status, acks, moves, rows, selected, report, dialogs, sending>>

\* The stage at which the detail panel shows the button of each step.
DialogButton(op, stage) ==
    \/ op = "approve_srdom" /\ stage = "SENTINEL_PASSED"
    \/ op = "authorize_drm" /\ stage = "APPROVED_SR_DOM"
    \/ op = "modify" /\ stage \in Actionable

LifecycleButton(op, stage) ==
    \/ op = "transmit" /\ stage = "AUTHORIZED_DRM"
    \/ op = "activate" /\ stage = "TRANSMITTED_COA"
    \/ op = "fitness"  /\ stage = "ACTIVE_GRANTED"
    \/ op = "archive"  /\ stage = "COMPLETED_FITNESS"
    \/ op = "cancel"   /\ stage \in Early \cup {"AUTHORIZED_DRM"}

PressLifecycle(op) ==
    /\ Press /\ selected # None
    /\ Can(role, op) /\ LifecycleButton(op, selected.status)
    /\ busyId # selected.id
    /\ busyId' = selected.id
    /\ Start(Asking(op, selected.id, "post", selected.status, FALSE))
    /\ UNCHANGED <<role, status, acks, moves, rows, selected, report, dialogs, sending>>

\* A dialog that is open already goes on, for the right of the button by now.
OpenDialog(op) ==
    /\ Press /\ selected # None
    /\ Can(role, op) /\ DialogButton(op, selected.status)
    /\ dialogs' = [dialogs EXCEPT ![KindOf(op)] = op]
    /\ UNCHANGED <<role, status, acks, moves, rows, selected, report, busyId, sending, calls>>

\* A dialog acts on the plan selected when it is submitted.
SubmitDialog(k) ==
    /\ Press /\ dialogs[k] # None /\ k \notin sending
    /\ sending' = sending \cup {k}
    /\ Start(Asking(dialogs[k], selected.id, "post", selected.status, TRUE))
    /\ UNCHANGED <<role, status, acks, moves, rows, selected, report, busyId, dialogs>>

\* A dialog that goes lets its call run on without it.
Released(k, cs) ==
    [i \in Slots |-> IF cs[i] # None /\ cs[i].held /\ KindOf(cs[i].op) = k
                     THEN [cs[i] EXCEPT !.held = FALSE] ELSE cs[i]]
\* MUTANT of Close: the page, not the dialog, holds the busy flag.
CloseBusy(k, cs) ==
    /\ dialogs' = [dialogs EXCEPT ![k] = None]
    /\ calls' = Released(k, cs)
    /\ UNCHANGED sending

Close(k, cs) ==
    /\ dialogs' = [dialogs EXCEPT ![k] = None]
    /\ sending' = sending \ {k}
    /\ calls' = Released(k, cs)

CloseDialog(k) ==
    /\ dialogs[k] # None
    /\ Close(k, calls)
    /\ UNCHANGED <<role, status, acks, moves, presses, rows, selected, report, busyId>>
----------------------------------------------------------------------------
(* The backend. *)
\* MUTANT of Takes: an endpoint takes a plan from any stage that is not final.
TakesAny(op, p) == status[p] \notin {"CANCELLED", "SUPERSEDED", "ARCHIVED_SEALED"}

\* The stage each endpoint takes a plan from, and the one it leaves it in.  An
\* acknowledgment is taken in any stage and moves only a draft, and revise and cancel
\* take a plan from more stages than their buttons are shown in.
Takes(op, p) ==
    CASE op \in AckOps        -> TRUE
      [] op = "approve_srdom" -> status[p] = "SENTINEL_PASSED"
      [] op = "authorize_drm" -> status[p] = "APPROVED_SR_DOM"
      [] op = "modify"        -> status[p] \notin {Ladder[i] : i \in 5..8}
      [] op = "cancel"        -> status[p] \in Early \cup {"AUTHORIZED_DRM"}
      [] op \in LifecycleOps  -> LifecycleButton(op, status[p])

Leaves(op, p) ==
    CASE op \in AckOps        -> IF status[p] = "DRAFT" /\ acks[p] \cup {op} = AckOps
                                  THEN "SENTINEL_PASSED" ELSE status[p]
      [] op = "approve_srdom" -> "APPROVED_SR_DOM"
      [] op = "authorize_drm" -> "AUTHORIZED_DRM"
      [] op = "modify"        -> "SUPERSEDED"
      [] op = "transmit"      -> "AUTHORIZED_DRM"     \* until COA acknowledges
      [] op = "activate"      -> "ACTIVE_GRANTED"
      [] op = "fitness"       -> "COMPLETED_FITNESS"
      [] op = "archive"       -> "ARCHIVED_SEALED"
      [] op = "cancel"        -> "CANCELLED"

Take(op, p) ==
    /\ Takes(op, p)
    /\ status' = [status EXCEPT ![p] = Leaves(op, p)]
    /\ acks' = IF op \in AckOps THEN [acks EXCEPT ![p] = @ \cup {op}] ELSE acks

Apply(c) == role \in Admitted(c.op) /\ Take(c.op, c.plan)

\* COA acknowledges a plan that was authorised.
Transmitted(p) ==
    /\ status[p] = "AUTHORIZED_DRM"
    /\ status' = [status EXCEPT ![p] = "TRANSMITTED_COA"]
    /\ UNCHANGED acks

\* A breakdown on the section supersedes what is authorised or on line.
Revoked(p) ==
    /\ status[p] \in {"AUTHORIZED_DRM", "TRANSMITTED_COA", "ACTIVE_GRANTED"}
    /\ status' = [status EXCEPT ![p] = "SUPERSEDED_EMERGENCY"]
    /\ UNCHANGED acks

\* Another operator of any role, the bridge or a breakdown.
OthersMove(p) ==
    /\ moves < MaxMoves
    /\ moves' = moves + 1
    /\ (\E op \in PostOps : Take(op, p)) \/ Transmitted(p) \/ Revoked(p)
    /\ UNCHANGED <<role, presses, rows, selected, report, busyId, dialogs, sending, calls>>
----------------------------------------------------------------------------
(* The answers. *)

\* The callbacks of a dialog close the one of its kind that is open by now, also
\* when their own is long gone.
Dismiss(c, cs) ==
    IF c.op \in DialogOps THEN Close(KindOf(c.op), cs)
                          ELSE calls' = cs /\ UNCHANGED <<dialogs, sending>>

\* The request succeeded: the dialog closes, and every call goes on to the lists.
AnswerOk(i) ==
    /\ calls[i] # None /\ calls[i].leg = "post"
    /\ Apply(calls[i])
    /\ LET leg == IF calls[i].op = "modify" THEN "list" ELSE "rows"
       IN Dismiss(calls[i], [calls EXCEPT ![i].leg = leg])
    /\ UNCHANGED <<role, moves, presses, rows, selected, report, busyId>>

\* Where a call whose request failed goes on: a life-cycle step and a revision
\* reload, a decision only when the backend says the content moved, an
\* acknowledgment stops.
AfterError(c) ==
    CASE c.op \in LifecycleOps -> {[c EXCEPT !.leg = "rowsAgain"]}
      [] c.op = "modify"       -> {[c EXCEPT !.leg = "list"]}
      [] c.op \in AckOps       -> {None}
      [] OTHER                 -> {[c EXCEPT !.leg = "list"], None}
\* MUTANT of LetGo: only the end of the reloads lets the plan go, not an error.
LetGoAfterReloads(c, next) ==
    busyId' = IF next = None /\ c.op \in AckOps \cup LifecycleOps /\ c.leg = "report"
              THEN None ELSE busyId

\* The finally of an acknowledgment or a life-cycle step: whatever plan is held,
\* it is let go.
LetGo(c, next) ==
    busyId' = IF next = None /\ c.op \in AckOps \cup LifecycleOps THEN None ELSE busyId

\* The request failed, or its answer was lost after it took effect.
AnswerError(i) ==
    /\ calls[i] # None /\ calls[i].leg = "post"
    /\ Apply(calls[i]) \/ UNCHANGED <<status, acks>>
    /\ \E next \in AfterError(calls[i]) :
          /\ LetGo(calls[i], next)
          /\ Dismiss(calls[i], [calls EXCEPT ![i] = next])
    /\ UNCHANGED <<role, moves, presses, rows, selected, report>>

ServeRows(i) ==
    /\ calls[i] # None /\ calls[i].leg \in {"rows", "rowsAgain", "list"}
    /\ calls[i].got = None
    /\ calls' = [calls EXCEPT ![i].got = status]
    /\ UNCHANGED <<role, status, acks, moves, presses, rows, selected, report, busyId, dialogs,
                   sending>>

\* A list arrives; a step that reloaded opens its plan again, wherever the operator
\* has gone in the meantime.
RowsArrive(i) ==
    /\ calls[i] # None /\ calls[i].got # None
    /\ rows' = calls[i].got
    /\ IF calls[i].leg = "list"
       THEN SetCall(i, None) /\ UNCHANGED <<selected, report>>
       ELSE /\ SetCall(i, [calls[i] EXCEPT !.leg = "report", !.got = None])
            /\ Select(calls[i].plan, calls[i].got[calls[i].plan])
    /\ UNCHANGED <<role, status, acks, moves, presses, busyId, dialogs, sending>>

\* A life-cycle step whose reload fails takes its error path and reloads again.
RowsFail(i) ==
    /\ calls[i] # None /\ calls[i].leg \in {"rows", "rowsAgain", "list"}
    /\ LET next == IF calls[i].leg = "rows" /\ calls[i].op \in LifecycleOps
                   THEN [calls[i] EXCEPT !.leg = "rowsAgain", !.got = None] ELSE None
       IN LetGo(calls[i], next) /\ SetCall(i, next)
    /\ UNCHANGED <<role, status, acks, moves, presses, rows, selected, report, dialogs, sending>>

\* The report that arrives is shown, whichever plan is selected by now.
ReportArrives(i) ==
    /\ calls[i] # None /\ calls[i].leg = "report"
    /\ report' \in {calls[i].plan, None}
    /\ LetGo(calls[i], None) /\ SetCall(i, None)
    /\ UNCHANGED <<role, status, acks, moves, presses, rows, selected, dialogs, sending>>

Answer(i) ==
    \/ AnswerOk(i) \/ AnswerError(i) \/ ServeRows(i) \/ RowsArrive(i)
    \/ RowsFail(i) \/ ReportArrives(i)

DeskNext ==
    \/ \E p \in Plans : OpenPlan(p) \/ OthersMove(p) \/ \E op \in AckOps : PressAck(op, p)
    \/ \E op \in LifecycleOps : PressLifecycle(op)
    \/ \E op \in DialogOps : OpenDialog(op)
    \/ \E k \in Kinds : SubmitDialog(k) \/ CloseDialog(k)
    \/ \E i \in Slots : Answer(i)

DeskSpec == DeskInit /\ [][DeskNext]_deskVars

\* What a call of this operator moves is what the operator saw: the plan is still in
\* the stage its button was shown for, however late the call is and whatever others
\* did meanwhile; an acknowledgment that comes late is recorded and moves nothing.
\* A cancellation or a revision may meet another stage, and so may a dialog under
\* which a click or a late answer selected a plan whose stage does not offer it
\* (atlas-approvals.tsx:392-436, 756-981; plans.py:316, 337-459).
AppliedAsSeen ==
    [][ \A i \in Slots :
          LET c == calls[i] IN
          /\ c # None /\ c.leg = "post"
          /\ calls'[i] = None \/ calls'[i].leg # "post"
          /\ status' # status
          => \/ status[c.plan] = c.seen
             \/ c.op \in {"cancel", "modify"}
             \/ c.op \in DialogOps /\ ~DialogButton(c.op, c.seen) ]_deskVars

LateStages == {Ladder[i] : i \in 4..8}

\* A plan past the signatures comes into the detail panel, where its transmit,
\* activate, fitness and archive buttons are, only when a call of this very desk
\* opens it again: no list offers it (atlas-approvals.tsx:366-390, 465-475).
LateStagesByOwnAnswer ==
    [][ selected' # selected /\ selected' # None /\ selected'.status \in LateStages
        => \E i \in Slots : /\ calls[i] # None /\ calls[i].got # None
                            /\ calls[i].op \in PostOps
                            /\ calls[i].plan = selected'.id ]_deskVars

\* The calls an open dialog of this kind waits for.
Awaited(k) == {i \in Slots : /\ calls[i] # None /\ calls[i].held
                             /\ KindOf(calls[i].op) = k}

\* The submit button of a dialog is held exactly while one request of that very
\* dialog is under way.  No callback of a dialog that is gone, no closing, opening or
\* changing of its right, and no other plan selected under it leaves the button held
\* for nothing or lets a second decision of one dialog out
\* (atlas-approvals.tsx:191-212, 465-475, 1013-1041, 1055-1074).
SubmitHeldByOwnCall ==
    \A k \in Kinds :
        IF k \in sending
        THEN dialogs[k] # None /\ \E i \in Slots : Awaited(k) = {i} /\ calls[i].leg = "post"
        ELSE Awaited(k) = {}

\* The buttons of a plan are not held for ever: every path of an acknowledgment
\* and of a life-cycle step, failed reloads included, lets them go
\* (atlas-approvals.tsx:394-463).
BusyEnds == \A p \in Plans : busyId = p ~> busyId # p
============================================================================
